---- MODULE Spec2Model ----
(***************************************************************************)
(* cAGENTS planning and filtering core: the when-clause matcher, the root  *)
(* and file filters, the output planner, rule discovery and the build      *)
(* orchestration (crates/cagents-core/src/{model,planner,loader,merge,     *)
(* lib}.rs).                                                               *)
(*                                                                         *)
(* Representation.  Option<T> is a sequence of length 0 (None) or 1        *)
(* (Some).  A Rust String that the code inspects character by character    *)
(* (glob patterns, file paths, file names) is a sequence of one-character  *)
(* strings; a String that is only compared for equality (dimension names,  *)
(* dimension values) is a TLA+ string.  A HashMap is a function.  A        *)
(* PathBuf used as a map key is the sequence of its components, because    *)
(* PathBuf equality and hashing are component-wise.                        *)
(***************************************************************************)
EXTENDS Integers, Sequences, FiniteSets, TLC

VARIABLES
    rules,      \* the in-memory rule set handed to the planner (Vec<Rule>)
    build_context,  \* the BuildContext of the invocation
    tree,       \* regular files under the project root (relative paths)
    templates,  \* the template files of .cAGENTS/templates (file name -> rule)
    config,     \* the loaded ProjectConfig (variables, output targets)
    disk,       \* generated documents on disk: <<dir, target>> -> merged text
    ret         \* the last call and what it returned

vars == <<rules, build_context, tree, templates, config, disk, ret>>

----------------------------------------------------------------------------
(* Option<T> *)

None == <<>>

Some(x) == <<x>>

IsSome(o) == Len(o) = 1

Unwrap(o) == o[1]

Range(s) == {s[i] : i \in DOMAIN s}

(* Vec<String>::contains *)
contains(list, v) == \E i \in DOMAIN list : list[i] = v

----------------------------------------------------------------------------
(* model.rs: the When clause *)

LegacyNames == {"env", "role", "language", "target"}

(* serde_json::Value restricted to what all_variables distinguishes: an    *)
(* array of items, a single string, or anything else; an item is a string  *)
(* or a non-string.                                                        *)
JStr(s) == [t |-> "str", v |-> s]

JNum == [t |-> "num", v |-> "7"]

JArray(items) == [kind |-> "array", items |-> items]

JString(s) == [kind |-> "string", items |-> <<JStr(s)>>]

JOther == [kind |-> "other", items |-> <<>>]

RECURSIVE filter_map_as_str(_)
filter_map_as_str(arr) ==
    IF arr = <<>> THEN <<>>
    ELSE IF Head(arr).t = "str"
         THEN <<Head(arr).v>> \o filter_map_as_str(Tail(arr))
         ELSE filter_map_as_str(Tail(arr))

(* When::legacy *)
legacy(env, role, language, target) ==
    [env |-> env, role |-> role, language |-> language, target |-> target,
     variables |-> <<>>]

(* When::from_variables: every entry becomes a JSON array of strings in    *)
(* `variables`; the four legacy fields stay None.                          *)
from_variables_when(m) ==
    [env |-> None, role |-> None, language |-> None, target |-> None,
     variables |-> [k \in DOMAIN m |->
                      JArray([i \in DOMAIN m[k] |-> JStr(m[k][i])])]]

(* The entry for an arbitrary variable without the branch for a single     *)
(* string value: only arrays give a requirement.                           *)
variable_requirement_arrays_only(value) ==
    IF value.kind = "array"
    THEN LET strings == filter_map_as_str(value.items)
         IN  IF strings # <<>> THEN Some(strings) ELSE None
    ELSE None

(* The entry all_variables inserts for an arbitrary variable: None when    *)
(* the entry is dropped.                                                   *)
variable_requirement(value) ==
    IF value.kind = "array"
    THEN LET strings == filter_map_as_str(value.items)
         IN  IF strings # <<>> THEN Some(strings) ELSE None
    ELSE IF value.kind = "string"
         THEN Some(<<value.items[1].v>>)
         ELSE None

(* When::all_variables *)
all_variables(when) ==
    LET named == {n \in LegacyNames : IsSome(when[n])}
        extra == {k \in DOMAIN when.variables :
                    /\ k \notin LegacyNames
                    /\ IsSome(variable_requirement(when.variables[k]))}
    IN  [n \in named \cup extra |->
            IF n \in named THEN Unwrap(when[n])
            ELSE Unwrap(variable_requirement(when.variables[n]))]

----------------------------------------------------------------------------
(* planner.rs: BuildContext *)

get(m, k) == IF k \in DOMAIN m THEN Some(m[k]) ELSE None

(* BuildContext::from_variables *)
from_variables(vs) ==
    [env |-> get(vs, "env"), role |-> get(vs, "role"),
     language |-> get(vs, "language"), target |-> get(vs, "target"),
     variables |-> vs]

(* The loop of matches_when over the requirement map, one entry at a time, *)
(* returning false at the first entry that fails.                          *)
RECURSIVE check_requirements(_, _, _)
check_requirements(self, when_vars, todo) ==
    IF todo = {} THEN TRUE
    ELSE LET var_name == CHOOSE n \in todo : TRUE
             ctx_value == get(self.variables, var_name)
         IN  IF IsSome(ctx_value)
             THEN IF ~contains(when_vars[var_name], Unwrap(ctx_value))
                  THEN FALSE
                  ELSE check_requirements(self, when_vars, todo \ {var_name})
             ELSE FALSE

(* The same loop with the missing-variable branch skipping the entry        *)
(* instead of returning false.                                             *)
RECURSIVE check_requirements_skip_missing(_, _, _)
check_requirements_skip_missing(self, when_vars, todo) ==
    IF todo = {} THEN TRUE
    ELSE LET var_name == CHOOSE n \in todo : TRUE
             ctx_value == get(self.variables, var_name)
         IN  IF IsSome(ctx_value)
             THEN IF ~contains(when_vars[var_name], Unwrap(ctx_value))
                  THEN FALSE
                  ELSE check_requirements_skip_missing(self, when_vars,
                                                       todo \ {var_name})
             ELSE check_requirements_skip_missing(self, when_vars,
                                                  todo \ {var_name})

matches_when_skip_missing(self, when) ==
    IF ~IsSome(when) THEN TRUE
    ELSE LET when_vars == all_variables(Unwrap(when))
         IN  check_requirements_skip_missing(self, when_vars, DOMAIN when_vars)

(* BuildContext::matches_when *)
matches_when(self, when) ==
    IF ~IsSome(when) THEN TRUE
    ELSE LET when_vars == all_variables(Unwrap(when))
         IN  check_requirements(self, when_vars, DOMAIN when_vars)

----------------------------------------------------------------------------
(* Strings and paths *)

(* str::split('/'): the parts between separators, empty parts included.    *)
RECURSIVE split(_)
split(s) ==
    IF s = <<>> THEN << <<>> >>
    ELSE LET rest == split(Tail(s))
         IN  IF Head(s) = "/" THEN << <<>> >> \o rest
             ELSE << <<Head(s)>> \o Head(rest) >> \o Tail(rest)

(* [String]::join("/") *)
RECURSIVE join(_)
join(parts) ==
    IF parts = <<>> THEN <<>>
    ELSE IF Len(parts) = 1 THEN parts[1]
    ELSE parts[1] \o <<"/">> \o join(Tail(parts))

CurDir == <<".">>

RootDir == <<"/">>

(* Path::components of a relative or absolute path string: empty parts and *)
(* interior `.` parts are normalised away, a leading `.` is kept as CurDir *)
(* and a leading `/` as RootDir.  PathBuf equality compares these.         *)
PathBuf(s) ==
    LET parts == split(s)
        keep == SelectSeq(parts, LAMBDA part : part # <<>> /\ part # CurDir)
        lead == IF s # <<>> /\ s[1] = "/" THEN <<RootDir>>
                ELSE IF parts[1] = CurDir THEN <<CurDir>>
                ELSE <<>>
    IN  lead \o keep

(* Path::parent: None for the empty path, else the path without its last   *)
(* component.                                                              *)
parent(path) ==
    IF path = <<>> THEN None ELSE Some(SubSeq(path, 1, Len(path) - 1))

(* Path::file_name of a path with at least one component *)
file_name(path) == path[Len(path)]

----------------------------------------------------------------------------
(* globset as the planner uses it: Glob::new(pattern) with the default     *)
(* options (case-sensitive, literal_separator off, so `*` also matches     *)
(* `/`), GlobSetBuilder::build and GlobSet::is_match.  A glob is its token *)
(* sequence; the pattern characters are literals, `/`, `*` and `[`.        *)

Lit(c) == [t |-> "Literal", c |-> c]

ZeroOrMore == [t |-> "ZeroOrMore", c |-> "*"]

RecursivePrefix == [t |-> "RecursivePrefix", c |-> "**/"]

RecursiveSuffix == [t |-> "RecursiveSuffix", c |-> "/**"]

RecursiveZeroOrMore == [t |-> "RecursiveZeroOrMore", c |-> "/**/"]

pop(tokens) == SubSeq(tokens, 1, Len(tokens) - 1)

last(tokens) == tokens[Len(tokens)]

(* The parser of Glob::new at position i with the tokens pushed so far.    *)
(* Returns Some(tokens), or None for an error: a `[` with no closing `]`   *)
(* (no pattern of the model holds a `]`).  A `**` is recursive only as a   *)
(* whole path component; elsewhere it is two ZeroOrMore tokens.            *)
RECURSIVE parse_glob(_, _, _)
parse_glob(p, i, tokens) ==
    IF i > Len(p) THEN Some(tokens)
    ELSE IF p[i] = "[" THEN None
    ELSE IF p[i] # "*" THEN parse_glob(p, i + 1, Append(tokens, Lit(p[i])))
    ELSE IF i + 1 > Len(p) \/ p[i + 1] # "*"
         THEN parse_glob(p, i + 1, Append(tokens, ZeroOrMore))
    ELSE LET two == tokens \o <<ZeroOrMore, ZeroOrMore>>
             at_end == i + 2 > Len(p)
             sep_next == ~at_end /\ p[i + 2] = "/"
         IN  IF tokens = <<>>
             THEN IF ~at_end /\ ~sep_next
                  THEN parse_glob(p, i + 2, two)
                  ELSE parse_glob(p, i + 3, <<RecursivePrefix>>)
             ELSE IF p[i - 1] # "/"
                  THEN parse_glob(p, i + 2, two)
             ELSE IF ~at_end /\ ~sep_next
                  THEN parse_glob(p, i + 2, two)
             ELSE LET popped == last(tokens)
                      pushed ==
                        IF popped.t = "RecursivePrefix" THEN RecursivePrefix
                        ELSE IF popped.t = "RecursiveSuffix" THEN RecursiveSuffix
                        ELSE IF at_end THEN RecursiveSuffix
                        ELSE RecursiveZeroOrMore
                  IN  parse_glob(p, IF at_end THEN i + 2 ELSE i + 3,
                                 Append(pop(tokens), pushed))

(* Glob::new *)
Glob_new(pattern) == parse_glob(pattern, 1, <<>>)

Suffixes(s) == {SubSeq(s, k, Len(s)) : k \in 1..(Len(s) + 1)}

(* The anchored match of a token sequence against a path string.           *)
(* ZeroOrMore is `.*`, RecursivePrefix `(?:/?|.*/)`, RecursiveSuffix       *)
(* `/.*`, RecursiveZeroOrMore `(?:/|/.*/)`.                                *)
RECURSIVE glob_is_match(_, _)
glob_is_match(tokens, s) ==
    IF tokens = <<>> THEN s = <<>>
    ELSE LET tok == Head(tokens)
             rest == Tail(tokens)
         IN  IF tok.t = "Literal"
             THEN s # <<>> /\ Head(s) = tok.c /\ glob_is_match(rest, Tail(s))
             ELSE IF tok.t = "ZeroOrMore"
             THEN \E r \in Suffixes(s) : glob_is_match(rest, r)
             ELSE IF tok.t = "RecursivePrefix"
             THEN \/ glob_is_match(rest, s)
                  \/ \E k \in 1..Len(s) :
                        s[k] = "/" /\ glob_is_match(rest, SubSeq(s, k + 1, Len(s)))
             ELSE IF tok.t = "RecursiveSuffix"
             THEN s # <<>> /\ Head(s) = "/"
                  /\ \E r \in Suffixes(Tail(s)) : glob_is_match(rest, r)
             ELSE s # <<>> /\ Head(s) = "/"
                  /\ \E k \in 1..Len(s) :
                        s[k] = "/" /\ glob_is_match(rest, SubSeq(s, k + 1, Len(s)))

(* GlobSetBuilder: the patterns that Glob::new accepts, the others dropped *)
(* (`if let Ok(glob) = Glob::new(pattern) { builder.add(glob) }`).         *)
RECURSIVE build_skipping(_)
build_skipping(globs) ==
    IF globs = <<>> THEN <<>>
    ELSE LET glob == Glob_new(Head(globs))
         IN  (IF IsSome(glob) THEN <<Unwrap(glob)>> ELSE <<>>)
             \o build_skipping(Tail(globs))

(* GlobSetBuilder with `Glob::new(pattern)?`: the first pattern that fails *)
(* to parse makes the whole call return Err (None).                        *)
RECURSIVE build_strict(_)
build_strict(globs) ==
    IF globs = <<>> THEN Some(<<>>)
    ELSE LET glob == Glob_new(Head(globs))
             more == build_strict(Tail(globs))
         IN  IF ~IsSome(glob) THEN None
             ELSE IF ~IsSome(more) THEN None
             ELSE Some(<<Unwrap(glob)>> \o Unwrap(more))

(* GlobSet::is_match: some glob of the set matches the path *)
is_match(globset, path) ==
    \E i \in DOMAIN globset : glob_is_match(globset[i], path)

----------------------------------------------------------------------------
(* planner.rs: the filters and the planner *)

Ok(v) == [ok |-> TRUE, value |-> v]

Err == [ok |-> FALSE, value |-> <<>>]

(* The closure of filter_rules_for_root also asking the when clause, as    *)
(* the closure of filter_rules_for_file does.                              *)
root_predicate_with_when(rule, context) ==
    /\ matches_when(context, rule.frontmatter.when)
    /\ IF IsSome(rule.frontmatter.globs)
       THEN Unwrap(rule.frontmatter.globs) = <<>>
       ELSE TRUE

(* The closure of filter_rules_for_root: globs missing or empty.           *)
root_predicate(rule, context) ==
    IF IsSome(rule.frontmatter.globs)
    THEN Unwrap(rule.frontmatter.globs) = <<>>
    ELSE TRUE

(* filter_rules_for_root: always Ok *)
filter_rules_for_root(rs, context) ==
    Ok(SelectSeq(rs, LAMBDA rule : root_predicate(rule, context)))

(* The closure of filter_rules_for_file without its context check.        *)
file_predicate_no_when(rule, file_path, context) ==
    IF ~IsSome(rule.frontmatter.globs) THEN TRUE
    ELSE IF Unwrap(rule.frontmatter.globs) = <<>> THEN TRUE
    ELSE is_match(build_skipping(Unwrap(rule.frontmatter.globs)), file_path)

(* The closure of filter_rules_for_file building its glob set with         *)
(* `Glob::new(pattern)?`, so that one malformed pattern rejects the rule.  *)
file_predicate_strict(rule, file_path, context) ==
    IF ~matches_when(context, rule.frontmatter.when) THEN FALSE
    ELSE IF ~IsSome(rule.frontmatter.globs) THEN TRUE
    ELSE IF Unwrap(rule.frontmatter.globs) = <<>> THEN TRUE
    ELSE LET globset == build_strict(Unwrap(rule.frontmatter.globs))
         IN  IsSome(globset) /\ is_match(Unwrap(globset), file_path)

(* The closure of filter_rules_for_file without the early return for an    *)
(* empty globs list: the empty glob set matches no path.                   *)
file_predicate_empty_set(rule, file_path, context) ==
    IF ~matches_when(context, rule.frontmatter.when) THEN FALSE
    ELSE IF ~IsSome(rule.frontmatter.globs) THEN TRUE
    ELSE is_match(build_skipping(Unwrap(rule.frontmatter.globs)), file_path)

(* The closure of filter_rules_for_file with its early returns.            *)
file_predicate(rule, file_path, context) ==
    IF ~matches_when(context, rule.frontmatter.when) THEN FALSE
    ELSE IF ~IsSome(rule.frontmatter.globs) THEN TRUE
    ELSE IF Unwrap(rule.frontmatter.globs) = <<>> THEN TRUE
    ELSE is_match(build_skipping(Unwrap(rule.frontmatter.globs)), file_path)

(* filter_rules_for_file: always Ok *)
filter_rules_for_file(rs, file_path, context) ==
    Ok(SelectSeq(rs, LAMBDA rule : file_predicate(rule, file_path, context)))

(* `.take_while(|part| !part.contains('*'))` *)
RECURSIVE take_while_no_star(_)
take_while_no_star(parts) ==
    IF parts = <<>> THEN <<>>
    ELSE IF contains(Head(parts), "*") THEN <<>>
    ELSE <<Head(parts)>> \o take_while_no_star(Tail(parts))

(* The literal directory parts of one glob: the parts before the first one *)
(* holding a `*`, empty parts dropped.                                     *)
dir_part(g) ==
    SelectSeq(take_while_no_star(split(g)), LAMBDA part : part # <<>>)

(* The loop that collects the common prefix of all dir_parts, position by  *)
(* position over the first one, stopping at the first disagreement.        *)
RECURSIVE common_prefix_from(_, _)
common_prefix_from(dir_parts, i) ==
    LET first == dir_parts[1]
    IN  IF i > Len(first) THEN <<>>
        ELSE IF \A k \in DOMAIN dir_parts :
                    i <= Len(dir_parts[k]) /\ dir_parts[k][i] = first[i]
             THEN <<first[i]>> \o common_prefix_from(dir_parts, i + 1)
             ELSE <<>>

(* find_common_parent_directory giving every pattern its own directory    *)
(* instead of the directory all patterns share.                            *)
find_common_parent_directory_each(globs) ==
    { IF dir_part(globs[k]) = <<>> THEN PathBuf(CurDir)
      ELSE PathBuf(join(dir_part(globs[k]))) : k \in DOMAIN globs }

(* find_common_parent_directory: a set of at most one directory key *)
find_common_parent_directory(globs) ==
    IF globs = <<>> THEN {}
    ELSE LET dir_parts == [k \in DOMAIN globs |-> dir_part(globs[k])]
         IN  IF \E k \in DOMAIN dir_parts : dir_parts[k] = <<>>
             THEN {PathBuf(CurDir)}
             ELSE LET common_prefix == common_prefix_from(dir_parts, 1)
                  IN  IF common_prefix = <<>> THEN {PathBuf(CurDir)}
                      ELSE {PathBuf(join(common_prefix))}

(* The names filter_entry prunes: hidden entries and the three ignored     *)
(* directory names.                                                        *)
IgnoredNames ==
    { <<"n","o","d","e","_","m","o","d","u","l","e","s">>,
      <<"t","a","r","g","e","t">>,
      <<"d","i","s","t">> }

entry_pruned(name) == name[1] = "." \/ name \in IgnoredNames

(* A relative path the walk reaches: no component of it is pruned.         *)
walk_reaches(rel_path) ==
    \A k \in DOMAIN rel_path : ~entry_pruned(rel_path[k])

(* find_matching_directories: Err (ok = FALSE) when a pattern fails to     *)
(* parse; else the parents of the regular files the walk reaches and the   *)
(* glob set matches.                                                       *)
find_matching_directories(project_tree, globs) ==
    LET globset == build_strict(globs)
    IN  IF ~IsSome(globset) THEN Err
        ELSE Ok({ Unwrap(parent(PathBuf(f))) :
                    f \in { g \in project_tree :
                              /\ walk_reaches(PathBuf(g))
                              /\ is_match(Unwrap(globset), g) } })

(* `outputs.entry(dir).or_default().push(rule.clone())` for every dir      *)
push_rule(outputs, dirs, rule) ==
    [d \in DOMAIN outputs \cup dirs |->
        IF d \in dirs
        THEN (IF d \in DOMAIN outputs THEN outputs[d] ELSE <<>>) \o <<rule>>
        ELSE outputs[d]]

unwrap_or(o, default) == IF IsSome(o) THEN Unwrap(o) ELSE default

(* The `for rule in rules` loop of plan_outputs from rule i on.            *)
RECURSIVE plan_loop(_, _, _, _)
plan_loop(rs, i, project_tree, outputs) ==
    IF i > Len(rs) THEN Ok(outputs)
    ELSE LET rule == rs[i]
             globs == rule.frontmatter.globs
         IN  IF ~IsSome(globs) THEN plan_loop(rs, i + 1, project_tree, outputs)
             ELSE IF Unwrap(globs) = <<>>
                  THEN plan_loop(rs, i + 1, project_tree, outputs)
             ELSE LET simplify ==
                        unwrap_or(rule.frontmatter.simplify_globs_to_parent, TRUE)
                      dirs == IF simplify
                              THEN Ok(find_common_parent_directory(Unwrap(globs)))
                              ELSE find_matching_directories(project_tree,
                                                             Unwrap(globs))
                  IN  IF ~dirs.ok THEN Err
                      ELSE plan_loop(rs, i + 1, project_tree,
                                     push_rule(outputs, dirs.value, rule))

(* The loop of plan_outputs keeping, under common-parent, only a parent    *)
(* directory that exists in the project tree.                              *)
RECURSIVE plan_loop_existing(_, _, _, _)
plan_loop_existing(rs, i, project_tree, outputs) ==
    IF i > Len(rs) THEN Ok(outputs)
    ELSE LET rule == rs[i]
             globs == rule.frontmatter.globs
         IN  IF ~IsSome(globs) THEN plan_loop_existing(rs, i + 1, project_tree, outputs)
             ELSE IF Unwrap(globs) = <<>>
                  THEN plan_loop_existing(rs, i + 1, project_tree, outputs)
             ELSE LET simplify ==
                        unwrap_or(rule.frontmatter.simplify_globs_to_parent, TRUE)
                      existing ==
                        { d \in find_common_parent_directory(Unwrap(globs)) :
                            \/ d = PathBuf(CurDir)
                            \/ \E f \in project_tree :
                                  /\ Len(PathBuf(f)) > Len(d)
                                  /\ SubSeq(PathBuf(f), 1, Len(d)) = d }
                      dirs == IF simplify
                              THEN Ok(existing)
                              ELSE find_matching_directories(project_tree,
                                                             Unwrap(globs))
                  IN  IF ~dirs.ok THEN Err
                      ELSE plan_loop_existing(rs, i + 1, project_tree,
                                              push_rule(outputs, dirs.value, rule))

plan_outputs_existing(rs, context, project_tree) ==
    LET root_rules == filter_rules_for_root(rs, context).value
        outputs == IF root_rules # <<>>
                   THEN (PathBuf(CurDir) :> root_rules)
                   ELSE <<>>
    IN  plan_loop_existing(rs, 1, project_tree, outputs)

(* plan_outputs planning only the rules whose when clause matches the      *)
(* planning context.                                                       *)
plan_outputs_matching(rs, context, project_tree) ==
    LET matching == SelectSeq(rs, LAMBDA rule :
                                matches_when(context, rule.frontmatter.when))
        root_rules == filter_rules_for_root(matching, context).value
        outputs == IF root_rules # <<>>
                   THEN (PathBuf(CurDir) :> root_rules)
                   ELSE <<>>
    IN  plan_loop(matching, 1, project_tree, outputs)

(* plan_outputs storing the root rules under `.` whether or not there are  *)
(* any.                                                                    *)
plan_outputs_always_root(rs, context, project_tree) ==
    plan_loop(rs, 1, project_tree,
              (PathBuf(CurDir) :> filter_rules_for_root(rs, context).value))

(* plan_outputs storing every rule under `.`, not only the rules that     *)
(* filter_rules_for_root selects.                                          *)
plan_outputs_all_in_root(rs, context, project_tree) ==
    plan_loop(rs, 1, project_tree,
              IF rs # <<>> THEN (PathBuf(CurDir) :> rs) ELSE <<>>)

(* plan_outputs: the root rules under `.` when there are any, then every   *)
(* rule with globs under each of its directories.                          *)
plan_outputs(rs, context, project_tree) ==
    LET root_rules == filter_rules_for_root(rs, context).value
        outputs == IF root_rules # <<>>
                   THEN (PathBuf(CurDir) :> root_rules)
                   ELSE <<>>
    IN  plan_loop(rs, 1, project_tree, outputs)

(* The orders in which fs::read_dir may yield the entries of a directory   *)
(* and a HashMap may yield its keys: any order.                            *)
Listings(S) ==
    { l \in [1..Cardinality(S) -> S] : \A i, j \in DOMAIN l : i # j => l[i] # l[j] }

(* A loop over the directories that stops after the first one *)
push_first(outputs, dir_seq, rule) ==
    IF dir_seq = <<>> THEN outputs ELSE push_rule(outputs, {Head(dir_seq)}, rule)

(* The `for dir in dirs` loop of plan_outputs, the HashSet yielding its    *)
(* directories in the order dir_seq.                                       *)
RECURSIVE push_each(_, _, _)
push_each(outputs, dir_seq, rule) ==
    IF dir_seq = <<>> THEN outputs
    ELSE push_each(push_rule(outputs, {Head(dir_seq)}, rule), Tail(dir_seq), rule)

(* The plans the loop of plan_outputs can return from rule i on, one for   *)
(* each order in which the directory sets can be iterated.                 *)
RECURSIVE plan_loop_any_order(_, _, _, _)
plan_loop_any_order(rs, i, project_tree, outputs) ==
    IF i > Len(rs) THEN {Ok(outputs)}
    ELSE LET rule == rs[i]
             globs == rule.frontmatter.globs
         IN  IF ~IsSome(globs) \/ globs = Some(<<>>)
             THEN plan_loop_any_order(rs, i + 1, project_tree, outputs)
             ELSE LET simplify ==
                        unwrap_or(rule.frontmatter.simplify_globs_to_parent, TRUE)
                      dirs == IF simplify
                              THEN Ok(find_common_parent_directory(Unwrap(globs)))
                              ELSE find_matching_directories(project_tree,
                                                             Unwrap(globs))
                  IN  IF ~dirs.ok THEN {Err}
                      ELSE UNION { plan_loop_any_order(rs, i + 1, project_tree,
                                                       push_each(outputs, dir_seq, rule)) :
                                   dir_seq \in Listings(dirs.value) }

(* plan_outputs with the iteration orders of its hash sets made explicit   *)
plan_outputs_any_order(rs, context, project_tree) ==
    LET root_rules == filter_rules_for_root(rs, context).value
        outputs == IF root_rules # <<>>
                   THEN (PathBuf(CurDir) :> root_rules)
                   ELSE <<>>
    IN  plan_loop_any_order(rs, 1, project_tree, outputs)

----------------------------------------------------------------------------
(* loader.rs: Rule and the parts of RuleFrontmatter the core reads *)

Frontmatter(globs, order, when, simplify) ==
    [globs |-> globs, order |-> order, when |-> when,
     simplify_globs_to_parent |-> simplify, engine |-> None, vars |-> <<>>]

(* A front matter with `engine` and `vars` set *)
with_engine(frontmatter, engine, rule_vars) ==
    [globs |-> frontmatter.globs, order |-> frontmatter.order,
     when |-> frontmatter.when,
     simplify_globs_to_parent |-> frontmatter.simplify_globs_to_parent,
     engine |-> engine, vars |-> rule_vars]

Rule(frontmatter, body, path) ==
    [frontmatter |-> frontmatter, body |-> body, path |-> path]

NoCall == [op |-> "none"]

(* Partial maps from a set of keys to a set of values with at most n       *)
(* entries.                                                                *)
PartialMaps(keys, values, n) ==
    UNION { [S -> values] : S \in {T \in SUBSET keys : Cardinality(T) <= n} }

----------------------------------------------------------------------------
(* Inputs of the when-clause matcher *)

(* Dimensions a when clause or a context may name, legacy and arbitrary.   *)
MaxDims == 2

Values == {"dev", "prod"}

ContextNames == LegacyNames \cup {"team"}

(* Keys of When.variables: an arbitrary variable, and a legacy name that   *)
(* When::from_variables leaves in the map.                                 *)
VariableKeys == {"team", "env"}

AcceptedLists == { <<>>, <<"dev">>, <<"dev", "prod">> }

JsonValues ==
    { JArray(<<>>), JArray(<<JStr("dev")>>),
      JArray(<<JStr("dev"), JStr("prod")>>),
      JArray(<<JNum>>), JArray(<<JNum, JStr("dev")>>),
      JString("dev"), JOther }

OptionOf(S) == {None} \cup {Some(x) : x \in S}

NamedDims(w) ==
    Cardinality({n \in LegacyNames : IsSome(w[n])})
        + Cardinality(DOMAIN w.variables)

WhenClauses ==
    { w \in [env : OptionOf(AcceptedLists), role : OptionOf(AcceptedLists),
             language : OptionOf(AcceptedLists),
             target : OptionOf(AcceptedLists),
             variables : PartialMaps(VariableKeys, JsonValues, MaxDims)] :
        NamedDims(w) <= MaxDims }

Contexts ==
    { from_variables(vs) : vs \in PartialMaps(ContextNames, Values, MaxDims) }

EmptyTemplates == <<>>

EmptyDisk == [files |-> <<>>, tracking |-> [dirs |-> {}, targets |-> {}]]

EmptyConfig == [variables |-> <<>>, targets |-> None, engine |-> None]

InitMatch ==
    /\ rules \in { <<Rule(Frontmatter(None, None, when, None), <<"A">>, <<"a">>)>> :
                     when \in OptionOf(WhenClauses) }
    /\ build_context \in Contexts
    /\ tree = {}
    /\ templates = EmptyTemplates
    /\ config = EmptyConfig
    /\ disk = EmptyDisk
    /\ ret = NoCall

(* context.matches_when(&rule.frontmatter.when) on a rule of the set *)
MatchesWhen ==
    \E i \in DOMAIN rules :
        /\ ret' = [op |-> "matches_when",
                   when |-> rules[i].frontmatter.when,
                   result |-> matches_when(build_context,
                                          rules[i].frontmatter.when)]
        /\ UNCHANGED <<rules, build_context, tree, templates, config, disk>>

NextMatch == MatchesWhen

SpecMatch == InitMatch /\ [][NextMatch]_vars

----------------------------------------------------------------------------
(* Inputs of the filters and the planner *)

(* Rules in a rule set. *)
MaxRules == 2

P_s_a_star == <<"s", "/", "a", "/", "*">>

P_s_b_star == <<"s", "/", "b", "/", "*">>

P_s_star == <<"s", "/", "*">>

P_t_star == <<"t", "/", "*">>

P_any == <<"*", "*", "/", "*">>

P_s_file == <<"s", "/", "f">>

(* `s/[`: an unclosed character class, which Glob::new rejects *)
P_malformed == <<"s", "/", "[">>

WhenRoleDev == Some(legacy(None, Some(<<"dev">>), None, None))

G_shared == <<P_s_a_star, P_s_b_star>>

G_unanchored == <<P_any, P_s_a_star>>

G_disjoint == <<P_s_star, P_t_star>>

G_mixed == <<P_malformed, P_s_a_star>>

(* The front-matter kinds of the planner inputs: rules without globs, with *)
(* and without a when clause, and rules with glob lists that share a       *)
(* directory, hold an unanchored pattern, share nothing, hold a malformed  *)
(* pattern next to a valid one, hold one pattern, only a malformed one, or *)
(* a pattern without wildcard, under the settings of simplifyGlobsToParent *)
(* (unset, true, false).                                                   *)
FrontmatterKinds ==
    { Frontmatter(None, None, None, None),
      Frontmatter(None, None, WhenRoleDev, None),
      Frontmatter(Some(<<>>), None, None, None),
      Frontmatter(Some(<<>>), None, WhenRoleDev, None),
      Frontmatter(Some(G_shared), None, None, None),
      Frontmatter(Some(G_shared), None, WhenRoleDev, Some(TRUE)),
      Frontmatter(Some(G_shared), None, None, Some(FALSE)),
      Frontmatter(Some(G_unanchored), None, None, None),
      Frontmatter(Some(G_unanchored), None, WhenRoleDev, Some(FALSE)),
      Frontmatter(Some(G_disjoint), None, WhenRoleDev, None),
      Frontmatter(Some(G_mixed), None, None, None),
      Frontmatter(Some(G_mixed), None, None, Some(FALSE)),
      Frontmatter(Some(<<P_s_a_star>>), None, WhenRoleDev, None),
      Frontmatter(Some(<<P_s_a_star>>), None, None, Some(FALSE)),
      Frontmatter(Some(<<P_malformed>>), None, None, None),
      Frontmatter(Some(<<P_s_file>>), None, None, Some(TRUE)) }

(* Rule i of a discovered set: its source file and body are named after    *)
(* its position, so the rules of a set are pairwise distinct.              *)
FileNames == << <<"a">>, <<"b">>, <<"c">>, <<"d">> >>

Bodies == << <<"A">>, <<"B">>, <<"C">>, <<"D">> >>

RuleSet(fm) == [i \in DOMAIN fm |-> Rule(fm[i], Bodies[i], FileNames[i])]

PlanContexts == { from_variables(<<>>), from_variables([role |-> "dev"]) }

F_s_a_f == <<"s", "/", "a", "/", "f">>

F_t_f == <<"t", "/", "f">>

F_f == <<"f">>

F_dist_f == <<"d", "i", "s", "t", "/", "f">>

(* A hidden regular file in the directory s *)
F_s_hidden == <<"s", "/", ".", "e">>

FilePaths == { F_s_a_f, F_t_f, F_f }

Trees == { {}, {F_s_a_f, F_t_f, F_f, F_dist_f, F_s_hidden} }

InitPlan ==
    /\ \E n \in 0..MaxRules :
          \E fm \in [1..n -> FrontmatterKinds] : rules = RuleSet(fm)
    /\ build_context \in PlanContexts
    /\ tree \in Trees
    /\ templates = EmptyTemplates
    /\ config = EmptyConfig
    /\ disk = EmptyDisk
    /\ ret = NoCall

(* filter_rules_for_root(&rules, &context) *)
FilterRulesForRoot ==
    /\ ret' = [op |-> "filter_rules_for_root",
               result |-> filter_rules_for_root(rules, build_context)]
    /\ UNCHANGED <<rules, build_context, tree, templates, config, disk>>

(* filter_rules_for_file(&rules, file_path, &context) *)
FilterRulesForFile ==
    \E file_path \in FilePaths :
        /\ ret' = [op |-> "filter_rules_for_file", file_path |-> file_path,
                   result |-> filter_rules_for_file(rules, file_path,
                                                    build_context)]
        /\ UNCHANGED <<rules, build_context, tree, templates, config, disk>>

(* plan_outputs(&rules, &context, project_root), the project tree being    *)
(* what the walk under project_root finds.                                 *)
PlanOutputs ==
    /\ ret' = [op |-> "plan_outputs",
               result |-> plan_outputs(rules, build_context, tree)]
    /\ UNCHANGED <<rules, build_context, tree, templates, config, disk>>

NextPlan == FilterRulesForRoot \/ FilterRulesForFile \/ PlanOutputs

SpecPlan == InitPlan /\ [][NextPlan]_vars

----------------------------------------------------------------------------
(* loader.rs: rule discovery *)

DefaultOrder == 50

(* `filename.ends_with(".md")` *)
ends_with_md(filename) ==
    /\ Len(filename) >= 3
    /\ SubSeq(filename, Len(filename) - 2, Len(filename)) = <<".", "m", "d">>

(* The key of `sort_by_key` *)
order_key(rule) == unwrap_or(rule.frontmatter.order, DefaultOrder)

(* Vec::sort_by_key, a stable sort: every element goes behind the elements *)
(* before it whose key is not greater.                                     *)
RECURSIVE sort_by_key(_)
sort_by_key(rs) ==
    IF rs = <<>> THEN <<>>
    ELSE LET sorted == sort_by_key(SubSeq(rs, 1, Len(rs) - 1))
             r == rs[Len(rs)]
         IN  SelectSeq(sorted, LAMBDA x : order_key(x) <= order_key(r))
                 \o <<r>>
                 \o SelectSeq(sorted, LAMBDA x : order_key(x) > order_key(r))

(* The loop of discover_rules over the entries read_dir yields, in the     *)
(* order it yields them: every regular file whose name ends with .md is    *)
(* parsed into a rule.  The template files of the model are well-formed.   *)
RECURSIVE read_rules(_, _)
read_rules(dir, listing) ==
    IF listing = <<>> THEN <<>>
    ELSE LET filename == Head(listing)
         IN  (IF ends_with_md(filename)
              THEN <<Rule(dir[filename].frontmatter, dir[filename].body, filename)>>
              ELSE <<>>)
             \o read_rules(dir, Tail(listing))

(* discover_rules *)
discover_rules(dir, listing) == Ok(sort_by_key(read_rules(dir, listing)))

----------------------------------------------------------------------------
(* adapters/builtin.rs, merge.rs, writers and lib.rs: the build *)

(* Text is a sequence of tokens; a `{{name}}` placeholder is one token.    *)
Placeholders ==
    [tok \in {"{{name}}", "{{other}}"} |->
        IF tok = "{{name}}" THEN "name" ELSE "other"]

(* str::replace *)
RECURSIVE replace(_, _, _)
replace(text, placeholder, replacement) ==
    IF text = <<>> THEN <<>>
    ELSE (IF Head(text) = placeholder THEN replacement ELSE <<Head(text)>>)
         \o replace(Tail(text), placeholder, replacement)

(* The loop of render_simple over the placeholders of the source.          *)
RECURSIVE render_loop(_, _, _, _, _)
render_loop(source, i, data, result, undefined_vars) ==
    IF i > Len(source)
    THEN IF undefined_vars # <<>> THEN Err ELSE Ok(result)
    ELSE IF source[i] \notin DOMAIN Placeholders
         THEN render_loop(source, i + 1, data, result, undefined_vars)
    ELSE LET var_name == Placeholders[source[i]]
         IN  IF var_name \in DOMAIN data
             THEN render_loop(source, i + 1, data,
                              replace(result, source[i], <<data[var_name]>>),
                              undefined_vars)
             ELSE render_loop(source, i + 1, data, result,
                              Append(undefined_vars, var_name))

(* render_simple *)
render_simple(source, data) == render_loop(source, 1, data, source, <<>>)

(* An engine spec is the prefix up to its colon and what follows it.       *)
BuiltinSimple == <<"builtin:", "simple">>

(* resolve_engine_spec: the engine of the rule, else defaults.engine, else *)
(* none (an error).                                                        *)
resolve_engine_spec(rule, defaults) ==
    IF IsSome(rule.frontmatter.engine) THEN rule.frontmatter.engine ELSE defaults

(* merge_rule_data: the vars of the rule over the base data *)
merge_rule_data(base_data, rule) ==
    [k \in DOMAIN base_data \cup DOMAIN rule.frontmatter.vars |->
       IF k \in DOMAIN rule.frontmatter.vars THEN rule.frontmatter.vars[k]
       ELSE base_data[k]]

(* render_external: the command `fail` exits with a failure status, any    *)
(* other compiler returns the source as content.                           *)
render_external(command, source) ==
    IF command = "fail" THEN Err ELSE Ok(source)

(* render_rule_with_command that takes any builtin engine for simple       *)
render_rule_any_builtin(rule, base_data, defaults) ==
    LET engine_spec == resolve_engine_spec(rule, defaults)
    IN  IF ~IsSome(engine_spec) THEN Err
        ELSE IF Head(Unwrap(engine_spec)) = "builtin:"
        THEN render_simple(rule.body, merge_rule_data(base_data, rule))
        ELSE IF Head(Unwrap(engine_spec)) = "command:"
        THEN IF Len(Unwrap(engine_spec)) < 2 \/ Unwrap(engine_spec)[2] = ""
             THEN Err
             ELSE render_external(Unwrap(engine_spec)[2], rule.body)
        ELSE Err

(* render_rule_with_command *)
render_rule_with_command(rule, base_data, defaults) ==
    LET engine_spec == resolve_engine_spec(rule, defaults)
    IN  IF ~IsSome(engine_spec) THEN Err
        ELSE IF Head(Unwrap(engine_spec)) = "builtin:"
        THEN IF Len(Unwrap(engine_spec)) = 2 /\ Unwrap(engine_spec)[2] = "simple"
             THEN render_simple(rule.body, merge_rule_data(base_data, rule))
             ELSE Err
        ELSE IF Head(Unwrap(engine_spec)) = "command:"
        THEN IF Len(Unwrap(engine_spec)) < 2 \/ Unwrap(engine_spec)[2] = ""
             THEN Err
             ELSE render_external(Unwrap(engine_spec)[2], rule.body)
        ELSE Err

(* [String]::join("\n\n") *)
RECURSIVE join_bodies(_)
join_bodies(rendered) ==
    IF rendered = <<>> THEN <<>>
    ELSE IF Len(rendered) = 1 THEN rendered[1]
    ELSE rendered[1] \o <<"\n\n">> \o join_bodies(Tail(rendered))

(* A merge that leaves out the bodies already merged once *)
RECURSIVE dedup_bodies(_, _)
dedup_bodies(rendered, seen) ==
    IF rendered = <<>> THEN <<>>
    ELSE IF Head(rendered) \in seen THEN dedup_bodies(Tail(rendered), seen)
    ELSE <<Head(rendered)>> \o dedup_bodies(Tail(rendered), seen \cup {Head(rendered)})

merge_rule_bodies_dedup(rendered) ==
    IF rendered = <<>> THEN Ok(<<>>) ELSE Ok(join_bodies(dedup_bodies(rendered, {})))

(* merge_rule_bodies *)
merge_rule_bodies(rendered) ==
    IF rendered = <<>> THEN Ok(<<>>) ELSE Ok(join_bodies(rendered))

(* The file a writer writes for a target in a directory; None for a target *)
(* the build does not know.                                                *)
target_file(target) ==
    IF target = "agents-md" THEN Some("AGENTS.md")
    ELSE IF target = "claude-md" THEN Some("CLAUDE.md")
    ELSE IF target = "cursorrules" THEN Some(".cursorrules")
    ELSE None

(* write_agents_md: the generated-file header, then the merged text.       *)
write_agents_md(content) == <<"<!-- AGENTS.md header -->">> \o content

(* write_claude_md: the auto-update header, then the merged text.          *)
write_claude_md(content) == <<"<!-- CLAUDE.md header -->">> \o content

(* write_cursorrules: the header, then the merged text.                    *)
write_cursorrules(content) == <<"# .cursorrules header">> \o content

(* The `match target.as_str()` of cmd_build *)
written_content(target, content) ==
    IF target = "agents-md" THEN write_agents_md(content)
    ELSE IF target = "claude-md" THEN write_claude_md(content)
    ELSE write_cursorrules(content)

(* The directory output_root.join(target_dir) denotes, output_root being   *)
(* `.`: CurDir components do not change the directory.                     *)
output_dir(target_dir) == SelectSeq(target_dir, LAMBDA c : c # CurDir)

(* The rendering loop of cmd_build over the rules selected for a target:   *)
(* Err at the first rule that fails to render.                             *)
RECURSIVE render_rules(_, _, _)
render_rules(target_rules, base_data, defaults) ==
    IF target_rules = <<>> THEN Ok(<<>>)
    ELSE LET rendered == render_rule_with_command(Head(target_rules), base_data,
                                                  defaults)
             more == render_rules(Tail(target_rules), base_data, defaults)
         IN  IF ~rendered.ok THEN Err
             ELSE IF ~more.ok THEN Err
             ELSE Ok(<<rendered.value>> \o more.value)

(* A target context that keeps a `target` value the base context holds *)
target_context_keep(context, target) ==
    from_variables([k \in DOMAIN context.variables \cup {"target"} |->
                      IF k \in DOMAIN context.variables THEN context.variables[k]
                      ELSE target])

(* The context of one output target in cmd_build: the variables of the     *)
(* base context with `target` inserted, replacing a value already there.   *)
target_context_of(context, target) ==
    from_variables([k \in DOMAIN context.variables \cup {"target"} |->
                      IF k = "target" THEN target ELSE context.variables[k]])

(* The `for target in &output_targets` loop of cmd_build for one plan      *)
(* directory, from target j on.  acc holds the files of the disk and the   *)
(* writes made so far (plan directory, target, content); the result says   *)
(* whether a render failed, and files written before a failure stay.       *)
RECURSIVE write_targets(_, _, _, _, _, _, _, _)
write_targets(target_dir, dir_rules, output_targets, j, context, base_data, defaults, acc) ==
    IF j > Len(output_targets) THEN [ok |-> TRUE, value |-> acc]
    ELSE LET target == output_targets[j]
             target_context == target_context_of(context, target)
             target_rules ==
                SelectSeq(dir_rules, LAMBDA rule :
                            matches_when(target_context, rule.frontmatter.when))
         IN  IF target_rules = <<>>
             THEN write_targets(target_dir, dir_rules, output_targets, j + 1,
                                context, base_data, defaults, acc)
             ELSE LET rendered == render_rules(target_rules, base_data, defaults)
                  IN  IF ~rendered.ok THEN [ok |-> FALSE, value |-> acc]
                      ELSE LET merged == merge_rule_bodies(rendered.value).value
                               file == <<output_dir(target_dir),
                                         unwrap_or(target_file(target), "")>>
                               after ==
                                 IF IsSome(target_file(target))
                                 THEN [files |->
                                         [f \in DOMAIN acc.files \cup {file} |->
                                            IF f = file
                                            THEN written_content(target, merged)
                                            ELSE acc.files[f]],
                                       written |-> acc.written \cup
                                          {[target_dir |-> target_dir,
                                            target |-> target,
                                            content |-> written_content(target, merged)]}]
                                 ELSE acc
                           IN  write_targets(target_dir, dir_rules, output_targets,
                                             j + 1, context, base_data, defaults,
                                             after)

(* The `for (target_dir, rules) in outputs.iter()` loop of cmd_build, the  *)
(* map yielding its keys in the order key_order.                           *)
RECURSIVE write_outputs(_, _, _, _, _, _, _, _)
write_outputs(outputs, key_order, i, output_targets, context, base_data, defaults, acc) ==
    IF i > Len(key_order) THEN [ok |-> TRUE, value |-> acc]
    ELSE LET done == write_targets(key_order[i], outputs[key_order[i]],
                                   output_targets, 1, context, base_data,
                                   defaults, acc)
         IN  IF ~done.ok THEN done
             ELSE write_outputs(outputs, key_order, i + 1, output_targets,
                                context, base_data, defaults, done.value)

(* build_template_data_map: the static variables of the configuration *)
build_template_data_map(cfg) == cfg.variables

(* The output targets of the configuration, agents-md when none is set.    *)
output_targets_of(cfg) == unwrap_or(cfg.targets, <<"agents-md">>)

(* cleanup_old_outputs and cleanup_old_target_files: generated files of a  *)
(* tracked directory that left the plan, and of a tracked target that left *)
(* the configuration, are removed.                                         *)
cleanup_old(d, current_output_paths, output_targets) ==
    LET current_dirs == {output_dir(k) : k \in current_output_paths}
        current_files == {Unwrap(target_file(t)) :
                            t \in {x \in Range(output_targets) : IsSome(target_file(x))}}
        stale == { f \in DOMAIN d.files :
                     \/ f[1] \in {output_dir(k) : k \in d.tracking.dirs} \ current_dirs
                     \/ f[2] \in {Unwrap(target_file(t)) :
                                    t \in {x \in d.tracking.targets :
                                             IsSome(target_file(x))}} \ current_files }
    IN  [f \in DOMAIN d.files \ stale |-> d.files[f]]

(* save_full_tracking *)
save_full_tracking(current_output_paths, output_targets) ==
    [dirs |-> current_output_paths, targets |-> Range(output_targets)]

(* cmd_build, read_dir yielding the template files in the order listing:   *)
(* the discovered rules, whether the build succeeded, the writes it made   *)
(* and the disk after it, for each order in which the plan map may yield   *)
(* its keys.  The tracking is saved only by a build that reaches its end.  *)
cmd_build(dir, listing, cfg, project_tree, d) ==
    LET all_rules == discover_rules(dir, listing).value
        base_data == build_template_data_map(cfg)
        context == from_variables(base_data)
        outputs == plan_outputs(all_rules, context, project_tree)
        output_targets == output_targets_of(cfg)
    IN  IF ~outputs.ok
        THEN { [ok |-> FALSE, all_rules |-> all_rules, written |-> {}, disk |-> d] }
        ELSE LET current_output_paths == DOMAIN outputs.value
                 cleaned == cleanup_old(d, current_output_paths, output_targets)
             IN  { LET done == write_outputs(outputs.value, key_order, 1,
                                             output_targets, context, base_data,
                                             cfg.engine,
                                             [files |-> cleaned, written |-> {}])
                   IN  [ok |-> done.ok, all_rules |-> all_rules,
                        written |-> done.value.written,
                        disk |-> [files |-> done.value.files,
                                  tracking |->
                                     IF done.ok
                                     THEN save_full_tracking(current_output_paths,
                                                             output_targets)
                                     ELSE d.tracking]] :
                   key_order \in Listings(current_output_paths) }

(* BuildContext::new(env, role, language): the values given are stored in  *)
(* the variables map as well, and `target` is None.                        *)
new(env, role, language) ==
    [env |-> env, role |-> role, language |-> language, target |-> None,
     variables |->
        [k \in {n \in {"env", "role", "language"} :
                  IsSome([env |-> env, role |-> role, language |-> language][n])} |->
            Unwrap([env |-> env, role |-> role, language |-> language][k])]]

(* The rendering loop of cmd_preview over the rules of a plan directory:   *)
(* a rule that fails to render is reported and left out.                   *)
RECURSIVE render_rules_continue(_, _, _)
render_rules_continue(dir_rules, base_data, defaults) ==
    IF dir_rules = <<>> THEN <<>>
    ELSE LET rendered == render_rule_with_command(Head(dir_rules), base_data,
                                                  defaults)
         IN  (IF rendered.ok THEN <<rendered.value>> ELSE <<>>)
             \o render_rules_continue(Tail(dir_rules), base_data, defaults)

(* The path cmd_preview prints for a plan directory *)
preview_output_path(target_dir) ==
    IF target_dir = PathBuf(CurDir) THEN <<"AGENTS.md">>
    ELSE target_dir \o <<"AGENTS.md">>

(* cmd_preview, read_dir yielding the template files in the order listing: *)
(* what it shows for each plan directory, i.e. the path of the file, the   *)
(* template files of the rules listed as contributing, and the merged      *)
(* preview text.  Nothing is shown when there is no rule.                  *)
cmd_preview(dir, listing, cfg, project_tree) ==
    LET all_rules == discover_rules(dir, listing).value
        context == new(None, None, None)
        outputs == plan_outputs(all_rules, context, project_tree)
        base_data == build_template_data_map(cfg)
    IN  IF all_rules = <<>> THEN Ok(<<>>)
        ELSE IF ~outputs.ok THEN Err
        ELSE Ok([target_dir \in DOMAIN outputs.value |->
                   [output_path |-> preview_output_path(target_dir),
                    listed |-> [i \in DOMAIN outputs.value[target_dir] |->
                                  outputs.value[target_dir][i].path],
                    merged |-> merge_rule_bodies(
                                  render_rules_continue(outputs.value[target_dir],
                                                        base_data, cfg.engine)).value]])

----------------------------------------------------------------------------
(* The build: a template directory, a configuration, and the two          *)
(* operations that read them.                                              *)

MaxTemplates == 2

N_a_md == <<"a", ".", "m", "d">>

N_b_md == <<"b", ".", "m", "d">>

N_c_md == <<"c", ".", "m", "d">>

N_d_txt == <<"d", ".", "t", "x", "t">>

TemplateNames == { N_a_md, N_b_md, N_c_md, N_d_txt }

(* The body of each template file: one token naming the file, and in c.md  *)
(* a placeholder behind it.                                                *)
TemplateBody(filename) ==
    IF filename = N_a_md THEN <<"A">>
    ELSE IF filename = N_b_md THEN <<"B">>
    ELSE IF filename = N_c_md THEN <<"C", "{{name}}">>
    ELSE <<"D">>

WhenTargetClaude == Some(legacy(None, None, None, Some(<<"claude-md">>)))

(* The front matter of the template files: no globs, with order unset or   *)
(* 10; globs that degrade to the project root, with order 10; rules        *)
(* restricted to one target; a rule anchored in a subdirectory; and a rule *)
(* placed, without simplification, by a file of the project root.          *)
TemplateKinds ==
    { Frontmatter(None, None, None, None),
      Frontmatter(None, Some(10), None, None),
      Frontmatter(Some(G_unanchored), Some(10), None, None),
      Frontmatter(None, None, WhenTargetClaude, None),
      Frontmatter(Some(G_unanchored), Some(10), WhenTargetClaude, None),
      Frontmatter(Some(<<P_s_a_star>>), None, None, None),
      Frontmatter(Some(<<F_f>>), None, None, Some(FALSE)) }

TemplateDir(names, fm) ==
    [f \in names |-> [frontmatter |-> fm[f], body |-> TemplateBody(f)]]

Configs ==
    { [variables |-> vs, targets |-> ts, engine |-> Some(BuiltinSimple)] :
        vs \in { <<>>, [name |-> "n", target |-> "claude-md"] },
        ts \in { None, Some(<<"agents-md", "claude-md", "other">>) } }

BuildTree == {F_s_a_f, F_t_f, F_f, F_dist_f}

InitBuild ==
    /\ \E names \in SUBSET TemplateNames :
          /\ Cardinality(names) <= MaxTemplates
          /\ \E fm \in [names -> TemplateKinds] : templates = TemplateDir(names, fm)
    /\ config \in Configs
    /\ tree = BuildTree
    /\ rules = <<>>
    /\ build_context = from_variables(<<>>)
    /\ disk = EmptyDisk
    /\ ret = NoCall

DiscoverRules ==
    \E listing \in Listings(DOMAIN templates) :
       LET result == discover_rules(templates, listing)
       IN  /\ rules' = result.value
           /\ ret' = [op |-> "discover_rules", listing |-> listing,
                      result |-> result]
           /\ UNCHANGED <<build_context, tree, templates, config, disk>>

CmdBuild ==
    \E listing \in Listings(DOMAIN templates) :
       \E out \in cmd_build(templates, listing, config, tree, disk) :
          /\ rules' = out.all_rules
          /\ disk' = out.disk
          /\ ret' = [op |-> "cmd_build", result |-> out.ok, written |-> out.written]
          /\ UNCHANGED <<build_context, tree, templates, config>>

NextBuild == DiscoverRules \/ CmdBuild

SpecBuild == InitBuild /\ [][NextBuild]_vars

----------------------------------------------------------------------------
(* Builds one after another, the template directory and the configuration  *)
(* being edited in between.                                                *)

(* A when clause on the configuration variable `name` *)
WhenNameN == Some(from_variables_when([name |-> <<"n">>]))

(* Template directories of a.md and c.md, each a rule for the project root *)
(* with or without a when clause on `name`, or a rule anchored in s/a;     *)
(* c.md holds the placeholder {{name}}.                                    *)
RebuildKinds ==
    { Frontmatter(None, None, None, None),
      Frontmatter(None, None, WhenNameN, None),
      Frontmatter(Some(<<P_s_a_star>>), None, None, None) }

RebuildTemplateDirs ==
    UNION { { TemplateDir(names, fm) : fm \in [names -> RebuildKinds] } :
            names \in { ns \in SUBSET {N_a_md, N_c_md} :
                          Cardinality(ns) <= MaxTemplates } }

RebuildConfigs ==
    { [variables |-> vs, targets |-> ts, engine |-> Some(BuiltinSimple)] :
        vs \in { <<>>, [name |-> "n"] },
        ts \in { None, Some(<<"agents-md", "claude-md", "cursorrules">>) } }

InitRebuild ==
    /\ templates \in RebuildTemplateDirs
    /\ config \in RebuildConfigs
    /\ tree = BuildTree
    /\ rules = <<>>
    /\ build_context = from_variables(<<>>)
    /\ disk = EmptyDisk
    /\ ret = NoCall

(* The user rewrites the template directory *)
EditTemplates ==
    /\ templates' \in RebuildTemplateDirs \ {templates}
    /\ ret' = NoCall
    /\ UNCHANGED <<rules, build_context, tree, config, disk>>

(* The user rewrites config.toml *)
EditConfig ==
    /\ config' \in RebuildConfigs \ {config}
    /\ ret' = NoCall
    /\ UNCHANGED <<rules, build_context, tree, templates, disk>>

NextRebuild == CmdBuild \/ EditTemplates \/ EditConfig

SpecRebuild == InitRebuild /\ [][NextRebuild]_vars

----------------------------------------------------------------------------
(* Previews of the builds over the same template directories and           *)
(* configurations.                                                         *)

CmdPreview ==
    \E listing \in Listings(DOMAIN templates) :
       /\ ret' = [op |-> "cmd_preview", listing |-> listing,
                  result |-> cmd_preview(templates, listing, config, tree)]
       /\ UNCHANGED <<rules, build_context, tree, templates, config, disk>>

NextPreview == CmdPreview

SpecPreview == InitRebuild /\ [][NextPreview]_vars

----------------------------------------------------------------------------
(* Builds over rules and configurations that name rendering engines.       *)

(* Rules for the project root: without engine, with builtin:simple, with   *)
(* an unknown builtin engine, with an external compiler that succeeds or   *)
(* fails, with an empty command, with a spec of neither kind, with vars    *)
(* that define `name`, and a rule for claude-md only whose compiler fails. *)
EngineKinds ==
    { with_engine(Frontmatter(None, None, None, None), e, <<>>) :
        e \in { None, Some(BuiltinSimple), Some(<<"builtin:", "hbs">>),
                Some(<<"command:", "compile">>), Some(<<"command:", "fail">>),
                Some(<<"command:">>), Some(<<"handlebars">>) } }
    \cup { with_engine(Frontmatter(None, None, None, None), None, [name |-> "v"]),
           with_engine(Frontmatter(None, None, WhenTargetClaude, None),
                       Some(<<"command:", "fail">>), <<>>) }

EngineConfigs ==
    { [variables |-> vs, targets |-> ts, engine |-> e] :
        vs \in { <<>>, [name |-> "n"] },
        ts \in { None, Some(<<"claude-md", "other">>) },
        e \in { None, Some(BuiltinSimple) } }

InitEngines ==
    /\ \E names \in SUBSET {N_a_md, N_b_md, N_c_md} :
          /\ Cardinality(names) <= MaxTemplates
          /\ \E fm \in [names -> EngineKinds] : templates = TemplateDir(names, fm)
    /\ config \in EngineConfigs
    /\ tree = BuildTree
    /\ rules = <<>>
    /\ build_context = from_variables(<<>>)
    /\ disk = EmptyDisk
    /\ ret = NoCall

NextEngines == CmdBuild

SpecEngines == InitEngines /\ [][NextEngines]_vars

----------------------------------------------------------------------------
(* Concurrent invocations of the pure operations over one rule set: each   *)
(* thread runs one call at a time, a call advancing by one rule per step,  *)
(* with the value it builds held in the call's own local.                  *)

Threads == {"t1", "t2"}

ConcurrentOps ==
    { "matches_when", "filter_rules_for_root", "filter_rules_for_file",
      "plan_outputs", "merge_rule_bodies" }

ConcurrentKinds ==
    { Frontmatter(None, None, WhenRoleDev, None),
      Frontmatter(Some(G_shared), None, None, None),
      Frontmatter(Some(G_unanchored), None, None, Some(FALSE)) }

IdleCall == [op |-> "none", arg |-> 0, i |-> 0, done |-> FALSE, result |-> <<>>]

EmptyLocals == [filtered |-> <<>>, outputs |-> Ok(<<>>), merged |-> <<>>]

(* A local of every invocation shared by all of them *)
locals_shared(t) == "t1"

(* The locals of the invocation thread t runs (`filtered`, `outputs`,      *)
(* `merged`): its own.                                                     *)
locals_of(t) == t

InitConcurrent ==
    /\ \E n \in 0..MaxRules :
          \E fm \in [1..n -> ConcurrentKinds] : rules = RuleSet(fm)
    /\ build_context \in PlanContexts
    /\ tree = BuildTree
    /\ templates = EmptyTemplates
    /\ config = EmptyConfig
    /\ disk = EmptyDisk
    /\ ret = [calls |-> [t \in Threads |-> IdleCall],
              locals |-> [t \in Threads |-> EmptyLocals]]

(* Thread t enters an operation with fresh locals. *)
StartCall(t) ==
    /\ ret.calls[t].op = "none" \/ ret.calls[t].done
    /\ \E op \in ConcurrentOps : \E k \in DOMAIN rules \cup {0} :
          /\ (op = "matches_when") = (k # 0)
          /\ ret' = [calls |-> [ret.calls EXCEPT ![t] =
                                  [op |-> op, arg |-> k, i |-> 1,
                                   done |-> FALSE, result |-> <<>>]],
                     locals |-> [ret.locals EXCEPT ![locals_of(t)] = EmptyLocals]]
    /\ UNCHANGED <<rules, build_context, tree, templates, config, disk>>

(* One iteration of the loop of the operation thread t runs, over rule i.  *)
StepCall(t) ==
    LET call == ret.calls[t]
        mine == ret.locals[locals_of(t)]
        rule == rules[call.i]
        root_rules == filter_rules_for_root(rules, build_context).value
        next ==
          IF call.op = "filter_rules_for_root"
          THEN [mine EXCEPT !.filtered =
                  IF root_predicate(rule, build_context) THEN Append(@, rule) ELSE @]
          ELSE IF call.op = "filter_rules_for_file"
          THEN [mine EXCEPT !.filtered =
                  IF file_predicate(rule, F_s_a_f, build_context)
                  THEN Append(@, rule) ELSE @]
          ELSE IF call.op = "plan_outputs"
          THEN [mine EXCEPT !.outputs =
                  IF ~@.ok THEN @
                  ELSE plan_loop(<<rule>>, 1, tree,
                                 IF call.i = 1 /\ root_rules # <<>>
                                 THEN (PathBuf(CurDir) :> root_rules)
                                 ELSE @.value)]
          ELSE [mine EXCEPT !.merged =
                  IF call.i = 1 THEN rule.body ELSE @ \o <<"\n\n">> \o rule.body]
    IN  /\ call.op \in ConcurrentOps \ {"matches_when"}
        /\ ~call.done
        /\ call.i <= Len(rules)
        /\ ret' = [calls |-> [ret.calls EXCEPT ![t].i = @ + 1],
                   locals |-> [ret.locals EXCEPT ![locals_of(t)] = next]]
        /\ UNCHANGED <<rules, build_context, tree, templates, config, disk>>

(* The operation of thread t returns. *)
FinishCall(t) ==
    LET call == ret.calls[t]
        mine == ret.locals[locals_of(t)]
        result ==
          IF call.op = "matches_when"
          THEN matches_when(build_context, rules[call.arg].frontmatter.when)
          ELSE IF call.op = "plan_outputs" THEN mine.outputs
          ELSE IF call.op = "merge_rule_bodies" THEN Ok(mine.merged)
          ELSE Ok(mine.filtered)
    IN  /\ call.op \in ConcurrentOps
        /\ ~call.done
        /\ call.op = "matches_when" \/ call.i > Len(rules)
        /\ ret' = [calls |-> [ret.calls EXCEPT ![t].done = TRUE,
                                               ![t].result = result],
                   locals |-> ret.locals]
        /\ UNCHANGED <<rules, build_context, tree, templates, config, disk>>

NextConcurrent == \E t \in Threads : StartCall(t) \/ StepCall(t) \/ FinishCall(t)

SpecConcurrent == InitConcurrent /\ [][NextConcurrent]_vars

----------------------------------------------------------------------------
(* The merge engine on its own: lists of rendered bodies, among them the   *)
(* empty body, a body holding a blank line, and equal bodies.              *)

MaxBodies == 3

RenderedBodies ==
    { <<>>, <<"A">>, <<"B">>, <<"A", "\n\n", "B">>, <<"\n\n">> }

RenderedLists == UNION { [1..n -> RenderedBodies] : n \in 0..MaxBodies }

InitMerge ==
    /\ rules = <<>>
    /\ build_context = from_variables(<<>>)
    /\ tree = {}
    /\ templates = EmptyTemplates
    /\ config = EmptyConfig
    /\ disk = EmptyDisk
    /\ ret = NoCall

MergeRuleBodies ==
    /\ \E rendered \in RenderedLists :
          ret' = [op |-> "merge_rule_bodies", rendered |-> rendered,
                  result |-> merge_rule_bodies(rendered)]
    /\ UNCHANGED <<rules, build_context, tree, templates, config, disk>>

NextMerge == MergeRuleBodies

SpecMerge == InitMerge /\ [][NextMerge]_vars

----------------------------------------------------------------------------
(* Inputs of render_simple: templates of plain text and placeholders, and  *)
(* data whose values are plain text or the text of a placeholder.          *)

(* Tokens in a template *)
MaxTokens == 3

TemplateTokens == { "T", "{{name}}", "{{other}}" }

Sources == UNION { [1..n -> TemplateTokens] : n \in 0..MaxTokens }

DataValues == { "n", "{{name}}", "{{other}}" }

DataMaps == PartialMaps({"name", "other"}, DataValues, 2)

RenderSimple ==
    /\ \E source \in Sources : \E data \in DataMaps :
          ret' = [op |-> "render_simple", source |-> source, data |-> data,
                  result |-> render_simple(source, data)]
    /\ UNCHANGED <<rules, build_context, tree, templates, config, disk>>

NextRender == RenderSimple

SpecRender == InitMerge /\ [][NextRender]_vars

----------------------------------------------------------------------------
(* Claims about the when-clause matcher (SpecMatch) *)

(* The dimensions a when clause requires and the values it accepts for     *)
(* each, read off the clause itself: a legacy field that is present, with  *)
(* the values of its list; an arbitrary variable (a key of `variables`     *)
(* that is not a legacy name) with at least one string among its values,   *)
(* with those strings.                                                     *)
AcceptedValues(w, d) ==
    IF d \in LegacyNames THEN Range(Unwrap(w[d]))
    ELSE { item.v : item \in { x \in Range(w.variables[d].items) : x.t = "str" } }

RequiredDims(w) ==
    {n \in LegacyNames : IsSome(w[n])}
        \cup {k \in DOMAIN w.variables \ LegacyNames : AcceptedValues(w, k) # {}}

ListedDims(w) ==
    {n \in LegacyNames : IsSome(w[n])}
        \cup {k \in DOMAIN w.variables \ LegacyNames :
                w.variables[k].kind \in {"array", "string"}}

(* C3: matches_when is fail-closed: when the clause names a dimension D    *)
(* and the context has no entry for D, the result is false, whatever D's   *)
(* accepted-value list contains (an empty list included) and whether D is  *)
(* a legacy name or an arbitrary variable.                                 *)
C3_FailClosed ==
    (ret.op = "matches_when" /\ IsSome(ret.when)) =>
        \A D \in ListedDims(Unwrap(ret.when)) :
            D \notin DOMAIN build_context.variables => ret.result = FALSE

----------------------------------------------------------------------------
(* Claims about the filters and the planner (SpecPlan) *)

(* Rule i of the input is among the rules a filter returned.  The rules of *)
(* a set differ in their source path.                                      *)
InResult(i) ==
    \E k \in DOMAIN ret.result.value : ret.result.value[k] = rules[i]

(* The path matches the pattern: the pattern is a well-formed glob and the *)
(* glob matches.                                                           *)
PatternMatches(pattern, path) ==
    LET glob == Glob_new(pattern)
    IN  IsSome(glob) /\ glob_is_match(Unwrap(glob), path)

HasGlobs(rule) ==
    IsSome(rule.frontmatter.globs) /\ Unwrap(rule.frontmatter.globs) # <<>>

SomePatternMatches(rule, path) ==
    \E k \in DOMAIN Unwrap(rule.frontmatter.globs) :
        PatternMatches(Unwrap(rule.frontmatter.globs)[k], path)

(* C1: filter_rules_for_file returns a rule if and only if the context     *)
(* matches the rule's when clause and the rule's globs is absent, or       *)
(* empty, or the file path matches at least one of its patterns.           *)
C1_FileFilterIff ==
    ret.op = "filter_rules_for_file" =>
        \A i \in DOMAIN rules :
            InResult(i) <=>
                /\ matches_when(build_context, rules[i].frontmatter.when)
                /\ \/ ~HasGlobs(rules[i])
                   \/ SomePatternMatches(rules[i], ret.file_path)

(* C1 witness: one rule with a when clause and globs is returned, another  *)
(* whose when clause matches is left out because no pattern matches.       *)
C1_Witness ==
    /\ ret.op = "filter_rules_for_file"
    /\ \E i, j \in DOMAIN rules :
          /\ InResult(i) /\ HasGlobs(rules[i])
          /\ IsSome(rules[i].frontmatter.when)
          /\ ~InResult(j) /\ HasGlobs(rules[j])
          /\ matches_when(build_context, rules[j].frontmatter.when)

(* C4: filter_rules_for_root returns a rule if and only if its globs is    *)
(* absent or empty, whatever the rule's when clause and the context are.   *)
C4_RootFilterIff ==
    ret.op = "filter_rules_for_root" =>
        /\ ret.result.ok
        /\ \A i \in DOMAIN rules : InResult(i) <=> ~HasGlobs(rules[i])

(* C4 witness: a rule without globs whose when clause does not match the   *)
(* context is returned, and a rule with globs and no when clause is not.   *)
C4_Witness ==
    /\ ret.op = "filter_rules_for_root"
    /\ \E i, j \in DOMAIN rules :
          /\ InResult(i)
          /\ ~matches_when(build_context, rules[i].frontmatter.when)
          /\ ~InResult(j) /\ ~IsSome(rules[j].frontmatter.when)

(* The directory keys of a plan that hold rule i *)
KeysOf(i) ==
    { d \in DOMAIN ret.result.value :
        \E k \in DOMAIN ret.result.value[d] : ret.result.value[d][k] = rules[i] }

(* The path segments of a pattern, a segment being literal when it holds   *)
(* no `*`.                                                                 *)
Segments(pattern) == SelectSeq(split(pattern), LAMBDA seg : seg # <<>>)

IsLiteral(seg) == \A k \in DOMAIN seg : seg[k] # "*"

IsPrefix(K, S) == Len(K) <= Len(S) /\ \A j \in DOMAIN K : K[j] = S[j]

(* K is a sequence of whole leading literal segments shared by all         *)
(* patterns.                                                               *)
SharedLiteralPrefix(K, globs) ==
    /\ \A j \in DOMAIN K : IsLiteral(K[j])
    /\ \A k \in DOMAIN globs : IsPrefix(K, Segments(globs[k]))

LongestSharedLiteralPrefix(globs) ==
    LET candidates == { SubSeq(Segments(globs[1]), 1, n) :
                          n \in 0..Len(Segments(globs[1])) }
    IN  CHOOSE K \in candidates :
            /\ SharedLiteralPrefix(K, globs)
            /\ \A K2 \in candidates :
                  SharedLiteralPrefix(K2, globs) => Len(K2) <= Len(K)

Simplified(rule) ==
    ~IsSome(rule.frontmatter.simplify_globs_to_parent)
        \/ Unwrap(rule.frontmatter.simplify_globs_to_parent) = TRUE

(* C5: a rule with non-empty globs planned with the common-parent strategy *)
(* (simplifyGlobsToParent true or unset) is placed under exactly one       *)
(* directory key: the longest sequence of whole leading literal segments   *)
(* its patterns share, or `.` when they share none (in particular when a   *)
(* pattern begins with a wildcard segment).                                *)
C5_CommonParentKey ==
    (ret.op = "plan_outputs" /\ ret.result.ok) =>
        \A i \in DOMAIN rules :
            (HasGlobs(rules[i]) /\ Simplified(rules[i])) =>
                KeysOf(i) =
                    { LET K == LongestSharedLiteralPrefix(
                                   Unwrap(rules[i].frontmatter.globs))
                      IN  IF K = <<>> THEN <<CurDir>> ELSE K }

(* C5 witness: a plan places a rule with the patterns s/a/* and s/b/*      *)
(* under the single key s, and a rule with an unanchored pattern under `.` *)
C5_Witness ==
    /\ ret.op = "plan_outputs" /\ ret.result.ok
    /\ \E i, j \in DOMAIN rules :
          /\ rules[i].frontmatter.globs = Some(G_shared)
          /\ Simplified(rules[i])
          /\ KeysOf(i) = { << <<"s">> >> }
          /\ rules[j].frontmatter.globs = Some(G_unanchored)
          /\ Simplified(rules[j])
          /\ KeysOf(j) = { <<CurDir>> }

(* C6: plan_outputs does not evaluate when clauses: for the same rules and *)
(* project tree the plan is the same for every context.                    *)
C6_PlanIgnoresContext ==
    ret.op = "plan_outputs" =>
        \A c \in PlanContexts : plan_outputs(rules, c, tree) = ret.result

(* C6 witness: a plan holds, under a directory key, a rule with globs      *)
(* whose when clause does not match the planning context.                  *)
C6_Witness ==
    /\ ret.op = "plan_outputs" /\ ret.result.ok
    /\ \E i \in DOMAIN rules :
          /\ HasGlobs(rules[i])
          /\ ~matches_when(build_context, rules[i].frontmatter.when)
          /\ KeysOf(i) # {}

(* C7: plan_outputs never returns an error because of a malformed glob     *)
(* pattern, under either strategy: a plan is returned.                     *)
C7_PlanNeverFails ==
    ret.op = "plan_outputs" => ret.result.ok

(* C8: filter_rules_for_file returns Ok for every input, and a rule whose  *)
(* when clause matches and whose globs hold a well-formed pattern matching *)
(* the file path is returned whatever malformed patterns the list holds.   *)
C8_FileFilterSkipsMalformed ==
    ret.op = "filter_rules_for_file" =>
        /\ ret.result.ok
        /\ \A i \in DOMAIN rules :
              ( /\ matches_when(build_context, rules[i].frontmatter.when)
                /\ HasGlobs(rules[i])
                /\ SomePatternMatches(rules[i], ret.file_path) )
              => InResult(i)

(* C8 witness: a returned rule whose globs hold a malformed pattern.       *)
C8_Witness ==
    /\ ret.op = "filter_rules_for_file"
    /\ \E i \in DOMAIN rules :
          /\ InResult(i)
          /\ HasGlobs(rules[i])
          /\ \E k \in DOMAIN Unwrap(rules[i].frontmatter.globs) :
                ~IsSome(Glob_new(Unwrap(rules[i].frontmatter.globs)[k]))

----------------------------------------------------------------------------
(* Claims about rule discovery and the build (SpecBuild) *)

(* The lexicographic order of file names over the characters of the model  *)
CharRank == [c \in {".", "a", "b", "c", "d", "m", "t", "x"} |->
               CHOOSE n \in 1..8 :
                  <<".", "a", "b", "c", "d", "m", "t", "x">>[n] = c]

RECURSIVE LexLess(_, _)
LexLess(x, y) ==
    IF y = <<>> THEN FALSE
    ELSE IF x = <<>> THEN TRUE
    ELSE IF Head(x) # Head(y) THEN CharRank[Head(x)] < CharRank[Head(y)]
    ELSE LexLess(Tail(x), Tail(y))

(* The template file a body token names *)
MarkedFile == [tok \in {"A", "B", "C", "D"} |->
                 IF tok = "A" THEN N_a_md
                 ELSE IF tok = "B" THEN N_b_md
                 ELSE IF tok = "C" THEN N_c_md
                 ELSE N_d_txt]

(* The `order` values (50 when unset) of the rules merged into a document, *)
(* in the order their bodies appear in it.                                 *)
MergedOrders(content) ==
    LET marks == SelectSeq(content, LAMBDA tok : tok \in DOMAIN MarkedFile)
    IN  [i \in DOMAIN marks |->
           unwrap_or(templates[MarkedFile[marks[i]]].frontmatter.order, 50)]

(* C9: every document a build writes merges its rule bodies in             *)
(* non-decreasing `order` (default 50), the root document that mixes       *)
(* glob-less rules with glob rules degrading to `.` included.              *)
C9_DocumentsMergeInOrder ==
    \A f \in DOMAIN disk.files :
       LET orders == MergedOrders(disk.files[f])
       IN  \A i, j \in DOMAIN orders : i < j => orders[i] <= orders[j]

(* C10: among rules of equal `order`, discover_rules returns them in       *)
(* lexicographic order of their file names, whatever order the directory   *)
(* listing yields them in.                                                 *)
C10_EqualOrderByFileName ==
    ret.op = "discover_rules" =>
       \A i, j \in DOMAIN ret.result.value :
          (/\ i < j
           /\ order_key(ret.result.value[i]) = order_key(ret.result.value[j]))
          => LexLess(ret.result.value[i].path, ret.result.value[j].path)

----------------------------------------------------------------------------
(* Claims about the merge engine (SpecMerge) *)

(* The position in the merged text just before body i, when the bodies are *)
(* laid out in input order with one separator between neighbours.          *)
RECURSIVE OffsetOf(_, _)
OffsetOf(rendered, i) ==
    IF i = 1 THEN 0
    ELSE OffsetOf(rendered, i - 1) + Len(rendered[i - 1]) + 1

(* C11: merge_rule_bodies returns the input bodies joined by exactly       *)
(* "\n\n" in input order: the empty list gives the empty text, one body    *)
(* gives that body, no body is reordered, dropped or deduplicated, and the *)
(* call never returns an error.                                            *)
C11_MergeJoinsInOrder ==
    ret.op = "merge_rule_bodies" =>
       LET rendered == ret.rendered
           n == Len(rendered)
           out == ret.result.value
       IN  /\ ret.result.ok
           /\ n = 0 => out = <<>>
           /\ n = 1 => out = rendered[1]
           /\ n > 0 => Len(out) = OffsetOf(rendered, n) + Len(rendered[n])
           /\ \A i \in 1..n :
                 /\ SubSeq(out, OffsetOf(rendered, i) + 1,
                           OffsetOf(rendered, i) + Len(rendered[i])) = rendered[i]
                 /\ i < n => out[OffsetOf(rendered, i) + Len(rendered[i]) + 1] = "\n\n"

(* A merge of three bodies, two of them equal and one empty *)
C11_Witness ==
    /\ ret.op = "merge_rule_bodies"
    /\ ret.rendered = << <<"A">>, <<>>, <<"A">> >>
    /\ ret.result = Ok(<<"A", "\n\n", "\n\n", "A">>)

----------------------------------------------------------------------------
(* Claims about the per-target selection of the build (SpecBuild) *)

(* The plan of the build that has just run *)
BuildPlan == plan_outputs(rules, from_variables(config.variables), tree).value

(* The configured output targets that have a writer *)
ConfiguredTargets ==
    Range(IF IsSome(config.targets) THEN Unwrap(config.targets) ELSE <<"agents-md">>)
        \cap {"agents-md", "claude-md", "cursorrules"}

(* The when clause of a rule matches the base context with its `target`    *)
(* dimension set to T.                                                     *)
Admits(rule, T) ==
    LET w == rule.frontmatter.when
    IN  \/ ~IsSome(w)
        \/ \A d \in RequiredDims(Unwrap(w)) :
              LET value == IF d = "target" THEN Some(T)
                           ELSE get(config.variables, d)
              IN  /\ IsSome(value)
                  /\ Unwrap(value) \in AcceptedValues(Unwrap(w), d)

(* The template files whose bodies a document holds, in document order *)
DocFiles(content) ==
    LET marks == SelectSeq(content, LAMBDA tok : tok \in DOMAIN MarkedFile)
    IN  [i \in DOMAIN marks |-> MarkedFile[marks[i]]]

(* The files of the rules of a plan directory that target T admits *)
AdmittedFiles(dir_rules, T) ==
    LET sel == SelectSeq(dir_rules, LAMBDA rule : Admits(rule, T))
    IN  [i \in DOMAIN sel |-> sel[i].path]

(* C12: in cmd_build, for every configured target T and every plan         *)
(* directory, the document written for T holds exactly the directory's     *)
(* rules whose when clause matches the base context with `target` set to   *)
(* T, a `target` of the base context being overridden: a rule whose        *)
(* when.target does not list T is never in T's document, and a rule        *)
(* without when clause is in the document of every target.                 *)
C12_PerTargetSelection ==
    ret.op = "cmd_build" =>
       /\ \A wr \in ret.written :
             /\ wr.target_dir \in DOMAIN BuildPlan
             /\ wr.target \in ConfiguredTargets
             /\ DocFiles(wr.content)
                   = AdmittedFiles(BuildPlan[wr.target_dir], wr.target)
             /\ \A i \in DOMAIN BuildPlan[wr.target_dir] :
                   LET rule == BuildPlan[wr.target_dir][i]
                       w == rule.frontmatter.when
                   IN  /\ (/\ IsSome(w)
                           /\ IsSome(Unwrap(w).target)
                           /\ wr.target \notin Range(Unwrap(Unwrap(w).target)))
                          => rule.path \notin Range(DocFiles(wr.content))
                       /\ ~IsSome(w) => rule.path \in Range(DocFiles(wr.content))
       /\ ret.result =>
             \A k \in DOMAIN BuildPlan : \A T \in ConfiguredTargets :
                AdmittedFiles(BuildPlan[k], T) # <<>>
                   => \E wr \in ret.written : wr.target_dir = k /\ wr.target = T

(* A build whose base context holds target = claude-md writes, for one     *)
(* plan directory, an agents-md document without the claude-only rule and  *)
(* a claude-md document with it.                                           *)
C12_Witness ==
    /\ ret.op = "cmd_build"
    /\ ret.result
    /\ "target" \in DOMAIN config.variables
    /\ \E w1, w2 \in ret.written :
          /\ w1.target_dir = w2.target_dir
          /\ w1.target = "agents-md"
          /\ w2.target = "claude-md"
          /\ Len(DocFiles(w1.content)) = 1
          /\ Len(DocFiles(w2.content)) = 2

----------------------------------------------------------------------------
(* Further claims about the planner (SpecPlan) *)

(* C13: every plan plan_outputs returns has only non-empty rule lists: no  *)
(* directory key maps to an empty list, the key `.` is there only when at  *)
(* least one rule is placed at root, and an empty rule set gives an empty  *)
(* plan.                                                                   *)
C13_PlanListsNonEmpty ==
    (ret.op = "plan_outputs" /\ ret.result.ok) =>
       /\ \A k \in DOMAIN ret.result.value : ret.result.value[k] # <<>>
       /\ <<CurDir>> \in DOMAIN ret.result.value
             => \E i \in DOMAIN rules :
                   \E j \in DOMAIN ret.result.value[<<CurDir>>] :
                      ret.result.value[<<CurDir>>][j] = rules[i]
       /\ rules = <<>> => DOMAIN ret.result.value = {}

(* A plan without the key `.` for a rule set none of whose rules is placed *)
(* at root, next to a plan of an empty rule set.                           *)
C13_Witness ==
    /\ ret.op = "plan_outputs"
    /\ ret.result.ok
    /\ rules # <<>>
    /\ DOMAIN ret.result.value # {}
    /\ <<CurDir>> \notin DOMAIN ret.result.value

(* C14: for every rule whose globs is absent or empty,                     *)
(* filter_rules_for_root includes it and filter_rules_for_file includes it *)
(* for any file path and any context.                                      *)
C14_GloblessAlwaysIncluded ==
    (ret.op = "filter_rules_for_root" \/ ret.op = "filter_rules_for_file") =>
        \A i \in DOMAIN rules : ~HasGlobs(rules[i]) => InResult(i)

(* C14 as amended: for every rule whose globs is absent or empty,          *)
(* filter_rules_for_root includes it for any context, and                  *)
(* filter_rules_for_file includes it for any file path whenever the        *)
(* context matches its when clause (always, when it has none).             *)
C14_GloblessIncludedWhenMatching ==
    /\ ret.op = "filter_rules_for_root" =>
          \A i \in DOMAIN rules : ~HasGlobs(rules[i]) => InResult(i)
    /\ ret.op = "filter_rules_for_file" =>
          \A i \in DOMAIN rules :
             (/\ ~HasGlobs(rules[i])
              /\ \/ ~IsSome(rules[i].frontmatter.when)
                 \/ matches_when(build_context, rules[i].frontmatter.when))
             => InResult(i)

(* filter_rules_for_file returns a rule with an empty globs list whose     *)
(* when clause the context matches, and a rule without globs and without   *)
(* when clause.                                                            *)
C14_Witness ==
    /\ ret.op = "filter_rules_for_file"
    /\ \E i, j \in DOMAIN rules :
          /\ rules[i].frontmatter.globs = Some(<<>>)
          /\ IsSome(rules[i].frontmatter.when)
          /\ InResult(i)
          /\ rules[j].frontmatter.globs = None
          /\ rules[j].frontmatter.when = None
          /\ InResult(j)

(* C15: the common-parent strategy never reads the file system: for a      *)
(* rule set in which every rule with globs uses common-parent,             *)
(* plan_outputs returns the same plan for any two project trees, an empty  *)
(* one included.                                                           *)
C15_CommonParentIgnoresTree ==
    (/\ ret.op = "plan_outputs"
     /\ \A i \in DOMAIN rules : HasGlobs(rules[i]) => Simplified(rules[i]))
    => \A t \in Trees : plan_outputs(rules, build_context, t) = ret.result

(* A plan over the empty project tree that places a simplified rule under  *)
(* a directory other than `.`                                              *)
C15_Witness ==
    /\ ret.op = "plan_outputs" /\ ret.result.ok
    /\ tree = {}
    /\ \A i \in DOMAIN rules : HasGlobs(rules[i]) => Simplified(rules[i])
    /\ \E i \in DOMAIN rules :
          /\ HasGlobs(rules[i])
          /\ KeysOf(i) # {}
          /\ <<CurDir>> \notin KeysOf(i)

(* C16: plan_outputs is deterministic: calls with identical rules,         *)
(* context and project tree return plans with the same directory keys and, *)
(* under each key, the same rules in the same order, in whatever order the *)
(* hash sets of directories are iterated.                                  *)
C16_PlanDeterministic ==
    ret.op = "plan_outputs" =>
       plan_outputs_any_order(rules, build_context, tree) = {ret.result}

(* A plan with a rule placed, without simplification, under more than one  *)
(* directory, behind another rule under one of them.                       *)
C16_Witness ==
    /\ ret.op = "plan_outputs" /\ ret.result.ok
    /\ \E i \in DOMAIN rules :
          /\ Cardinality(KeysOf(i)) > 1
          /\ \E k \in KeysOf(i) : Len(ret.result.value[k]) > 1

----------------------------------------------------------------------------
(* Claims about builds one after another (SpecRebuild) *)

(* The directories of the plan of the build that has just run *)
PlanDirs == { output_dir(k) : k \in DOMAIN BuildPlan }

(* The file names of the configured targets *)
ConfiguredFiles ==
    { IF T = "agents-md" THEN "AGENTS.md"
      ELSE IF T = "claude-md" THEN "CLAUDE.md" ELSE ".cursorrules" :
      T \in ConfiguredTargets }

----------------------------------------------------------------------------
(* Claims about rendering in the build (SpecEngines) *)

(* Rendering the rule fails: no engine, an unknown builtin engine, a spec  *)
(* of neither kind, an empty command, a compiler that fails, or            *)
(* builtin:simple with a placeholder neither the configuration nor the     *)
(* rule defines.                                                           *)
RenderFails(rule) ==
    LET e == IF IsSome(rule.frontmatter.engine) THEN rule.frontmatter.engine
             ELSE config.engine
    IN  \/ ~IsSome(e)
        \/ Unwrap(e) \notin { <<"builtin:", "simple">>, <<"command:", "compile">> }
        \/ /\ Unwrap(e) = <<"builtin:", "simple">>
           /\ "{{name}}" \in Range(rule.body)
           /\ "name" \notin DOMAIN config.variables \cup DOMAIN rule.frontmatter.vars

(* The rule is selected for some plan directory and configured target *)
SelectedSomewhere(rule) ==
    \E k \in DOMAIN BuildPlan :
       \E T \in Range(IF IsSome(config.targets) THEN Unwrap(config.targets)
                      ELSE <<"agents-md">>) :
          /\ \E i \in DOMAIN BuildPlan[k] : BuildPlan[k][i] = rule
          /\ Admits(rule, T)

(* C18: cmd_build returns an error whenever rendering fails for a rule     *)
(* selected for some (plan directory, output target) pair; it never        *)
(* reports success after a failed render.                                  *)
C18_RenderFailureAborts ==
    ret.op = "cmd_build" =>
       ((\E i \in DOMAIN rules :
            SelectedSomewhere(rules[i]) /\ RenderFails(rules[i]))
        => ~ret.result)

(* A build fails on a selected rule with an unknown builtin engine while   *)
(* another selected rule renders.                                          *)
C18_Witness ==
    /\ ret.op = "cmd_build"
    /\ ~ret.result
    /\ \E i, j \in DOMAIN rules :
          /\ rules[i].frontmatter.engine = Some(<<"builtin:", "hbs">>)
          /\ SelectedSomewhere(rules[i])
          /\ SelectedSomewhere(rules[j])
          /\ ~RenderFails(rules[j])

----------------------------------------------------------------------------
(* Claims about concurrent invocations (SpecConcurrent) *)

(* What the call returns when it runs alone *)
AloneResult(call) ==
    IF call.op = "matches_when"
    THEN matches_when(build_context, rules[call.arg].frontmatter.when)
    ELSE IF call.op = "filter_rules_for_root"
    THEN filter_rules_for_root(rules, build_context)
    ELSE IF call.op = "filter_rules_for_file"
    THEN filter_rules_for_file(rules, F_s_a_f, build_context)
    ELSE IF call.op = "plan_outputs"
    THEN plan_outputs(rules, build_context, tree)
    ELSE merge_rule_bodies([i \in DOMAIN rules |-> rules[i].body])

(* C19: concurrent invocations of matches_when, filter_rules_for_root,     *)
(* filter_rules_for_file, plan_outputs and merge_rule_bodies over the same *)
(* rule set, in any interleaving, each return what the same call returns   *)
(* when run alone, and the shared rule set is unchanged afterwards.        *)
C19_ConcurrentCallsIndependent ==
    /\ [](\A t \in Threads :
            ret.calls[t].done => ret.calls[t].result = AloneResult(ret.calls[t]))
    /\ [][rules' = rules]_vars

(* A plan_outputs call has returned a plan while a filter_rules_for_file   *)
(* call of the other thread is half-way through the rules.                 *)
C19_Witness ==
    /\ Len(rules) > 1
    /\ \E t, u \in Threads :
          /\ ret.calls[t].op = "plan_outputs"
          /\ ret.calls[t].done
          /\ DOMAIN ret.calls[t].result.value # {}
          /\ ret.calls[u].op = "filter_rules_for_file"
          /\ ~ret.calls[u].done
          /\ ret.calls[u].i = 2

----------------------------------------------------------------------------
(* Claims about the matching-directories strategy (SpecPlan) *)

(* The file lies inside a skipped directory: one of its directories, at    *)
(* any depth, is named node_modules, target or dist, or has a name that    *)
(* begins with a dot.                                                      *)
InSkippedDirectory(file) ==
    \E k \in 1..(Len(Segments(file)) - 1) :
       \/ Segments(file)[k] \in { <<"n","o","d","e","_","m","o","d","u","l","e","s">>,
                                  <<"t","a","r","g","e","t">>, <<"d","i","s","t">> }
       \/ Segments(file)[k][1] = "."

(* The directory that holds the file *)
DirectoryOf(file) == SubSeq(Segments(file), 1, Len(Segments(file)) - 1)

(* C20: a rule planned without simplification is placed under exactly the  *)
(* parent directories of the regular files under the project root that     *)
(* match at least one of its globs and do not lie inside a skipped         *)
(* directory; every regular file outside such directories is tested, and a *)
(* rule with no matching file is placed nowhere.                           *)
C20_MatchingDirectories ==
    (ret.op = "plan_outputs" /\ ret.result.ok) =>
       \A i \in DOMAIN rules :
          (HasGlobs(rules[i]) /\ ~Simplified(rules[i])) =>
             KeysOf(i) = { DirectoryOf(f) :
                           f \in { g \in tree :
                                     /\ ~InSkippedDirectory(g)
                                     /\ SomePatternMatches(rules[i], g) } }

----------------------------------------------------------------------------
(* Claims about the keys of a plan (SpecPlan) *)

(* K is a directory prefix of the pattern: whole leading segments of it,   *)
(* the final (file-name) segment not among them.                           *)
IsDirectoryPrefix(K, pattern) ==
    IsPrefix(K, Segments(pattern)) /\ Len(K) < Len(Segments(pattern))

(* C21: under the common-parent strategy the key of a rule is `.` or a     *)
(* directory prefix of each of its patterns: it never holds the final      *)
(* (file-name) segment of a pattern, so a rule with the single pattern s/f *)
(* is placed under s.                                                      *)
C21_KeyIsDirectoryPrefix ==
    (ret.op = "plan_outputs" /\ ret.result.ok) =>
       \A i \in DOMAIN rules :
          (HasGlobs(rules[i]) /\ Simplified(rules[i])) =>
             \A K \in KeysOf(i) :
                \/ K = <<CurDir>>
                \/ \A k \in DOMAIN Unwrap(rules[i].frontmatter.globs) :
                      IsDirectoryPrefix(K, Unwrap(rules[i].frontmatter.globs)[k])

(* A regular file located directly in the project root that the walk tests *)
RootLevelFile(file) ==
    Len(Segments(file)) = 1 /\ ~entry_pruned(Segments(file)[1])

(* C22: a rule planned without simplification that matches a regular file  *)
(* located directly in the project root is listed under the key `.`, the   *)
(* key under which the root rules are stored.                              *)
C22_RootMatchUnderDot ==
    (ret.op = "plan_outputs" /\ ret.result.ok) =>
       \A i \in DOMAIN rules :
          (/\ HasGlobs(rules[i]) /\ ~Simplified(rules[i])
           /\ \E f \in tree : RootLevelFile(f) /\ SomePatternMatches(rules[i], f))
             => <<CurDir>> \in KeysOf(i)

(* C23: no two directory keys of a plan denote the same directory once     *)
(* joined to the output root, so each output file of a build is written    *)
(* from exactly one plan entry.                                            *)
C23_KeysDenoteDistinctDirectories ==
    (ret.op = "plan_outputs" /\ ret.result.ok) =>
       \A d1, d2 \in DOMAIN ret.result.value :
          output_dir(d1) = output_dir(d2) => d1 = d2

----------------------------------------------------------------------------
(* Further claims about builds one after another (SpecRebuild) *)

(* The file of a target that has a writer *)
FileOfTarget(T) ==
    IF T = "agents-md" THEN "AGENTS.md"
    ELSE IF T = "claude-md" THEN "CLAUDE.md" ELSE ".cursorrules"

(* C24: after any sequence of builds, when a build completes, no generated *)
(* file exists for a plan directory and a configured target whose filtered *)
(* rule list is empty in that build, even if an earlier build wrote one.   *)
C24_NoFileForEmptySelection ==
    (ret.op = "cmd_build" /\ ret.result) =>
       \A k \in DOMAIN BuildPlan : \A T \in ConfiguredTargets :
          AdmittedFiles(BuildPlan[k], T) = <<>>
             => <<output_dir(k), FileOfTarget(T)>> \notin DOMAIN disk.files

----------------------------------------------------------------------------
(* Claims about the preview (SpecPreview) *)

(* The template files cmd_build merges into the AGENTS.md of a plan        *)
(* directory in the build `out`: none when it writes no such file.         *)
BuildMergedFiles(out, target_dir) ==
    UNION { Range(DocFiles(wr.content)) :
            wr \in { w \in out.written :
                       w.target_dir = target_dir /\ w.target = "agents-md" } }

(* C25: for the same configuration and templates, the rules cmd_preview    *)
(* lists for a directory's AGENTS.md, and the rules whose bodies its       *)
(* preview text holds, are the rules a completed cmd_build merges into     *)
(* that file.                                                              *)
C25_PreviewBuildParity ==
    (ret.op = "cmd_preview" /\ ret.result.ok) =>
       \A out \in cmd_build(templates, ret.listing, config, tree, disk) :
          out.ok =>
             \A k \in DOMAIN ret.result.value :
                /\ Range(ret.result.value[k].listed) = BuildMergedFiles(out, k)
                /\ Range(DocFiles(ret.result.value[k].merged))
                      = BuildMergedFiles(out, k)

----------------------------------------------------------------------------
(* Claims about the results as selections of the input (SpecPlan) *)

(* xs is an order-preserving selection of ys: its elements are elements of *)
(* ys, equal field for field, in the same relative order.                  *)
RECURSIVE IsSelection(_, _)
IsSelection(xs, ys) ==
    IF xs = <<>> THEN TRUE
    ELSE IF ys = <<>> THEN FALSE
    ELSE IF Head(xs) = Head(ys) THEN IsSelection(Tail(xs), Tail(ys))
    ELSE IsSelection(xs, Tail(ys))

(* C26: the result of filter_rules_for_root, the result of                 *)
(* filter_rules_for_file and each rule list of a plan is an                *)
(* order-preserving selection of the input rules (same relative order,     *)
(* every rule equal to an input rule, none invented), and no call changes  *)
(* the input rules.                                                        *)
C26_OrderPreservingSelections ==
    /\ [](/\ ret.op \in {"filter_rules_for_root", "filter_rules_for_file"}
             => IsSelection(ret.result.value, rules)
          /\ (ret.op = "plan_outputs" /\ ret.result.ok)
             => \A d \in DOMAIN ret.result.value :
                   IsSelection(ret.result.value[d], rules))
    /\ [][rules' = rules]_vars

----------------------------------------------------------------------------
(* Claims about ill-formed when-clause values (SpecMatch) *)

(* The value of an arbitrary variable is a string or an array of strings   *)
IsStringOrStrings(value) ==
    \/ value.kind = "string"
    \/ value.kind = "array" /\ \A k \in DOMAIN value.items : value.items[k].t = "str"

(* The value holds at least one string: it is a string, or an array with a *)
(* string among its items.                                                 *)
HoldsString(value) ==
    \/ value.kind = "string"
    \/ value.kind = "array" /\ \E k \in DOMAIN value.items : value.items[k].t = "str"

(* The context holds, for dimension d, one of the strings the clause lists *)
Passes(w, d) ==
    /\ d \in DOMAIN build_context.variables
    /\ build_context.variables[d] \in AcceptedValues(w, d)

----------------------------------------------------------------------------
(* Claims about When::from_variables (SpecMatch) *)

(* The maps m for which When::from_variables(m) is the clause w *)
BuiltFrom(w) ==
    { m \in PartialMaps(VariableKeys, AcceptedLists, MaxDims) :
        w = from_variables_when(m) }

(* C28: a clause built by When::from_variables(m) requires every dimension *)
(* of m with a non-empty accepted list, whatever its name (env, role,      *)
(* language and target included): matches_when is true exactly when the    *)
(* context holds, for each such dimension, a value of its list.            *)
C28_FromVariablesRequiresAll ==
    (ret.op = "matches_when" /\ IsSome(ret.when)) =>
       \A m \in BuiltFrom(Unwrap(ret.when)) :
          ret.result =
             \A d \in {k \in DOMAIN m : m[k] # <<>>} :
                /\ d \in DOMAIN build_context.variables
                /\ build_context.variables[d] \in Range(m[d])

----------------------------------------------------------------------------
(* Claims about the places of a rule in a plan (SpecPlan) *)

(* C29: in a plan built from pairwise distinct rules, no directory's list  *)
(* holds a rule twice; a rule with absent or empty globs is listed under   *)
(* `.` and under no other key, and a rule with globs planned by            *)
(* common-parent is listed under exactly one key.                          *)
C29_RuleOncePerDirectory ==
    (ret.op = "plan_outputs" /\ ret.result.ok) =>
       /\ \A d \in DOMAIN ret.result.value :
             \A j, k \in DOMAIN ret.result.value[d] :
                j # k => ret.result.value[d][j] # ret.result.value[d][k]
       /\ \A i \in DOMAIN rules :
             /\ ~HasGlobs(rules[i]) => KeysOf(i) = { <<CurDir>> }
             /\ (HasGlobs(rules[i]) /\ Simplified(rules[i]))
                   => Cardinality(KeysOf(i)) = 1

(* C29 witness: a plan whose `.` list holds a rule without globs and a     *)
(* common-parent rule whose patterns degrade to the project root, each     *)
(* once.                                                                   *)
C29_Witness ==
    /\ ret.op = "plan_outputs" /\ ret.result.ok
    /\ \E i, j \in DOMAIN rules :
          /\ ~HasGlobs(rules[i])
          /\ HasGlobs(rules[j]) /\ Simplified(rules[j])
          /\ KeysOf(i) = { <<CurDir>> }
          /\ KeysOf(j) = { <<CurDir>> }
          /\ Len(ret.result.value[<<CurDir>>]) = 2

----------------------------------------------------------------------------
(* Claims about render_simple (SpecRender) *)

(* The names of the placeholders of a template *)
PlaceholderNames(source) ==
    { IF source[i] = "{{name}}" THEN "name" ELSE "other" :
      i \in { k \in DOMAIN source : source[k] \in {"{{name}}", "{{other}}"} } }

(* One simultaneous substitution over the template: every placeholder      *)
(* gives way to the value of its name, and nothing else changes.           *)
Substituted(source, data) ==
    [i \in DOMAIN source |->
        IF source[i] = "{{name}}" THEN data["name"]
        ELSE IF source[i] = "{{other}}" THEN data["other"]
        ELSE source[i]]

(* C30: render_simple errors when a placeholder of the template is         *)
(* undefined in the data, and otherwise returns the template with each     *)
(* placeholder replaced by the value of its name and nothing else: text a  *)
(* value brings in is not substituted again.                               *)
C30_SimultaneousSubstitution ==
    ret.op = "render_simple" =>
       IF PlaceholderNames(ret.source) \subseteq DOMAIN ret.data
       THEN ret.result = [ok |-> TRUE, value |-> Substituted(ret.source, ret.data)]
       ELSE ~ret.result.ok

====
